---- MODULE Spec2Model ----
(***************************************************************************)
(* A model of the mapping-and-codec core of mpc-fixer: the sample          *)
(* registry and the InstrumentService auto-mapper, the XPM writers, the    *)
(* XPM repair pass and reader, and the MIDI decoder.                       *)
(*                                                                         *)
(* Text is modelled as sequences of one-character strings, documents as    *)
(* sequences of markup tokens, byte buffers as sequences of 0..255.        *)
(***************************************************************************)
EXTENDS Integers, Sequences, FiniteSets, TLC

VARIABLES
    samples,     \* SampleManager.samples: the registry, in Map insertion order
    nextId,      \* number of samples loaded so far (ids are never reused)
    instrument,  \* InstrumentService: the keygroups of the current instrument
    ret,         \* the value returned by the operation that ran last
    content,     \* a text document handed to the repair pass / the reader
    data,        \* a byte buffer handed to the MIDI decoder
    managerPads, \* SampleManager.padAssignments: the sample id of each of the 16 pads
    drumKit,     \* DrumKitService: the sample id of every pad of the kit that was given one
    args,        \* the arguments of the call of a function that keeps no state
    sequencer    \* Sequencer: its patterns, its playback fields, its interval timer

vars == <<samples, nextId, instrument, ret, content, data, managerPads, drumKit, args, sequencer>>

(***************************************************************************)
(* Bounds of the model.                                                    *)
(***************************************************************************)
MaxSamples == 3

\* "null" of a `number | null` value
Null == -999

(***************************************************************************)
(* Characters and strings.                                                 *)
(***************************************************************************)
LowerChars == <<"a","b","c","d","e","f","g","h","i","j","k","l","m",
                "n","o","p","q","r","s","t","u","v","w","x","y","z">>
UpperChars == <<"A","B","C","D","E","F","G","H","I","J","K","L","M",
                "N","O","P","Q","R","S","T","U","V","W","X","Y","Z">>
DigitChars == <<"0","1","2","3","4","5","6","7","8","9">>

IndexIn(c, tbl) == IF \E i \in 1..Len(tbl) : tbl[i] = c
                   THEN CHOOSE i \in 1..Len(tbl) : tbl[i] = c
                   ELSE 0

\* String.prototype.toUpperCase / toLowerCase, one character
UpperChar(c) == IF IndexIn(c, LowerChars) > 0 THEN UpperChars[IndexIn(c, LowerChars)] ELSE c
LowerChar(c) == IF IndexIn(c, UpperChars) > 0 THEN LowerChars[IndexIn(c, UpperChars)] ELSE c
toUpperCase(s) == [i \in 1..Len(s) |-> UpperChar(s[i])]
toLowerCase(s) == [i \in 1..Len(s) |-> LowerChar(s[i])]

IsDigit(c) == IndexIn(c, DigitChars) > 0
DigitValue(c) == IndexIn(c, DigitChars) - 1

\* String.prototype.includes
includes(s, sub) ==
    \E i \in 1..(Len(s) - Len(sub) + 1) : SubSeq(s, i, i + Len(sub) - 1) = sub

\* String(n) for an integer n
RECURSIVE NatToString(_)
NatToString(n) == IF n < 10 THEN <<DigitChars[n + 1]>>
                  ELSE NatToString(n \div 10) \o <<DigitChars[(n % 10) + 1]>>
NumberToString(n) == IF n < 0 THEN <<"-">> \o NatToString(-n) ELSE NatToString(n)

\* Number.parseInt(s, 10): optional sign, then the longest run of digits; NaN
\* (here Null) when there is none
RECURSIVE DigitsValue(_, _, _)
DigitsValue(s, i, acc) == IF i <= Len(s) /\ IsDigit(s[i])
                          THEN DigitsValue(s, i + 1, acc * 10 + DigitValue(s[i]))
                          ELSE acc
parseInt(s) ==
    LET neg == Len(s) >= 1 /\ s[1] = "-"
        from == IF Len(s) >= 1 /\ s[1] \in {"-", "+"} THEN 2 ELSE 1
    IN IF from <= Len(s) /\ IsDigit(s[from])
       THEN (IF neg THEN -1 ELSE 1) * DigitsValue(s, from, 0)
       ELSE Null

(***************************************************************************)
(* Note names in sample names (sample-mapper.ts).                          *)
(***************************************************************************)
NoteLetters == {"A","B","C","D","E","F","G","a","b","c","d","e","f","g"}

\* length of the match of /([A-Ga-g][#b]?[0-9])/ anchored at position i, or 0
NotePatternAt(s, i) ==
    IF i + 2 <= Len(s) /\ s[i] \in NoteLetters /\ s[i+1] \in {"#", "b"} /\ IsDigit(s[i+2])
    THEN 3
    ELSE IF i + 1 <= Len(s) /\ s[i] \in NoteLetters /\ IsDigit(s[i+1])
    THEN 2
    ELSE 0

\* extractNoteFromFilename: the first match, upper-cased; <<>> is null
extractNoteFromFilename(filename) ==
    IF \E i \in 1..Len(filename) : NotePatternAt(filename, i) > 0
    THEN LET i == CHOOSE k \in 1..Len(filename) :
                     /\ NotePatternAt(filename, k) > 0
                     /\ \A j \in 1..(k-1) : NotePatternAt(filename, j) = 0
         IN toUpperCase(SubSeq(filename, i, i + NotePatternAt(filename, i) - 1))
    ELSE <<>>

\* noteMap: the keys are spelled as in the source ("Db", not "DB")
noteMapKeys == << <<"C">>, <<"C","#">>, <<"D","b">>, <<"D">>, <<"D","#">>, <<"E","b">>,
                  <<"E">>, <<"F">>, <<"F","#">>, <<"G","b">>, <<"G">>, <<"G","#">>,
                  <<"A","b">>, <<"A">>, <<"A","#">>, <<"B","b">>, <<"B">> >>
noteMapValues == <<0, 1, 1, 2, 3, 3, 4, 5, 6, 6, 7, 8, 8, 9, 10, 10, 11>>

\* noteMap[note] || 0
noteMapLookup(note) ==
    IF \E k \in 1..Len(noteMapKeys) : noteMapKeys[k] = note
    THEN noteMapValues[CHOOSE k \in 1..Len(noteMapKeys) : noteMapKeys[k] = note]
    ELSE 0

\* length of the match of /([A-G][#b]?)([0-9])/i anchored at position i, or 0
NoteRegexAt(s, i) ==
    IF i + 2 <= Len(s) /\ s[i] \in NoteLetters /\ s[i+1] \in {"#", "b", "B"} /\ IsDigit(s[i+2])
    THEN 3
    ELSE IF i + 1 <= Len(s) /\ s[i] \in NoteLetters /\ IsDigit(s[i+1])
    THEN 2
    ELSE 0

\* noteToMidi: (octave + 1) * 12 + (noteMap[note] || 0), -1 without a match
noteToMidi(noteName) ==
    IF \E i \in 1..Len(noteName) : NoteRegexAt(noteName, i) > 0
    THEN LET i == CHOOSE k \in 1..Len(noteName) :
                     /\ NoteRegexAt(noteName, k) > 0
                     /\ \A j \in 1..(k-1) : NoteRegexAt(noteName, j) = 0
             n == NoteRegexAt(noteName, i)
             note == toUpperCase(SubSeq(noteName, i, i + n - 2))
             octave == DigitValue(noteName[i + n - 1])
         IN (octave + 1) * 12 + noteMapLookup(note)
    ELSE -1

(***************************************************************************)
(* The sample registry (SampleManager).                                    *)
(*                                                                         *)
(* A sample is [id, name, buffer, pitch]: buffer says whether the audio    *)
(* was decoded, pitch is the note the pitch estimator returns for that     *)
(* audio (Null when it returns nothing).                                   *)
(***************************************************************************)

\* The files a user may load: name, whether the audio decodes, and the
\* estimator's result for the audio.
SampleFiles ==
    { [name |-> <<"C","4">>,                 buffer |-> TRUE,  pitch |-> 60],
      [name |-> <<"C","#","4">>,             buffer |-> TRUE,  pitch |-> Null],
      [name |-> <<"D","b","4">>,             buffer |-> TRUE,  pitch |-> 61],
      [name |-> <<"A","9">>,                 buffer |-> TRUE,  pitch |-> Null],
      [name |-> <<"s","o","f","t","C","4">>, buffer |-> TRUE,  pitch |-> 60],
      [name |-> <<"x">>,                     buffer |-> TRUE,  pitch |-> Null],
      [name |-> <<"C","4">>,                 buffer |-> FALSE, pitch |-> Null],
      [name |-> <<"R","&","B">>,             buffer |-> TRUE,  pitch |-> 67] }

SampleIds == 1..MaxSamples

\* SampleManager.getSample: the set holding the sample, empty for undefined
getSample(id) == { samples[i] : i \in { j \in 1..Len(samples) : samples[j].id = id } }

\* SampleManager.getAllSamples().map(s => s.id)
allSampleIds == [i \in 1..Len(samples) |-> samples[i].id]

\* detectPitch(sample.buffer).midiNote, Null when it returns null
detectPitch(sample) == sample.pitch

\* Array.prototype.sort((a, b) => a[field] - b[field]), which is stable: each
\* element is inserted after the elements whose key is not larger
RECURSIVE InsertSorted(_, _, _)
InsertSorted(sorted, x, field) ==
    IF sorted = <<>> THEN <<x>>
    ELSE IF Head(sorted)[field] <= x[field]
         THEN <<Head(sorted)>> \o InsertSorted(Tail(sorted), x, field)
         ELSE <<x>> \o sorted

RECURSIVE SortBy(_, _)
SortBy(seq, field) ==
    IF seq = <<>> THEN <<>>
    ELSE InsertSorted(SortBy(SubSeq(seq, 1, Len(seq) - 1), field), seq[Len(seq)], field)

(***************************************************************************)
(* sample-mapper.ts: autoMapSamples                                        *)
(***************************************************************************)

\* the root note resolved for one sample: file name first, pitch estimate second
mapperMidiNote(sample) ==
    LET noteFromFilename == extractNoteFromFilename(sample.name)
    IN IF noteFromFilename # <<>> THEN noteToMidi(noteFromFilename)
       ELSE detectPitch(sample)

RECURSIVE autoMapSamples(_)
autoMapSamples(sampleIds) ==
    IF sampleIds = <<>> THEN <<>>
    ELSE LET rest == autoMapSamples(SubSeq(sampleIds, 1, Len(sampleIds) - 1))
             sampleId == sampleIds[Len(sampleIds)]
             found == getSample(sampleId)
         IN IF found = {} THEN rest
            ELSE LET sample == CHOOSE s \in found : TRUE
                 IN IF ~sample.buffer THEN rest
                    ELSE IF mapperMidiNote(sample) = Null THEN rest
                    ELSE rest \o << [id |-> sampleId, midiNote |-> mapperMidiNote(sample)] >>

(***************************************************************************)
(* InstrumentService                                                       *)
(***************************************************************************)
InstrumentIds == {"instrument_0", "unknown"}

\* createDefaultInstrument
DefaultKeygroups ==
    << [id |-> <<"keygroup", 0>>, lowNote |-> 0, highNote |-> 127, rootNote |-> 60,
        velocityLayers |-> << [id |-> <<"velocity", 0>>, lowVelocity |-> 0,
                               highVelocity |-> 127, sampleId |-> Null] >>] >>

\* the keygroup built for mappedSamples[i] (0-based i, as in the source)
autoMapKeygroup(mappedSamples, i) ==
    LET sample == mappedSamples[i + 1]
        lowNote == IF i > 0
                   THEN ((mappedSamples[i].midiNote + sample.midiNote) \div 2) + 1
                   ELSE 0
        highNote == IF i < Len(mappedSamples) - 1
                    THEN (sample.midiNote + mappedSamples[i + 2].midiNote) \div 2
                    ELSE 127
    IN [id |-> <<"keygroup", i>>, lowNote |-> lowNote, highNote |-> highNote,
        rootNote |-> sample.midiNote,
        velocityLayers |-> << [id |-> <<"velocity", i, 0>>, lowVelocity |-> 0,
                               highVelocity |-> 127, sampleId |-> sample.id] >>]

\* the keygroups InstrumentService.autoMapSamples writes for the mapped samples
autoMapKeygroups(sampleIds) ==
    LET mappedSamples == SortBy(autoMapSamples(sampleIds), "midiNote")
    IN [k \in 1..Len(mappedSamples) |-> autoMapKeygroup(mappedSamples, k - 1)]

(***************************************************************************)
(* Documents: a sequence of markup tokens.                                 *)
(*   [k |-> "decl"]                    <?xml version="1.0" encoding="UTF-8"?> *)
(*   [k |-> "open",  n, a]             <n a...>                            *)
(*   [k |-> "empty", n, a]             <n a.../>                           *)
(*   [k |-> "close", n]                </n>                                *)
(*   [k |-> "text",  v]                character data                      *)
(*   [k |-> "broken", n, a]            <n a.../ a...>  (a slash inside)    *)
(*   [k |-> "cut", n, a]               <n a...   (the text ends in the tag) *)
(*   [k |-> "brokenClose", n, after]   </n a...> (attributes in a close)   *)
(* a is the sequence of <<attribute name, value>> pairs as written.        *)
(***************************************************************************)
Decl == [k |-> "decl"]
OpenTag(n, a) == [k |-> "open", n |-> n, a |-> a]
EmptyTag(n, a) == [k |-> "empty", n |-> n, a |-> a]
CloseTag(n) == [k |-> "close", n |-> n]
TextNode(v) == [k |-> "text", v |-> v]
CutTag(n, a) == [k |-> "cut", n |-> n, a |-> a]

\* flatten a sequence of token sequences
RECURSIVE Concat(_)
Concat(ss) == IF ss = <<>> THEN <<>> ELSE Head(ss) \o Concat(Tail(ss))

(***************************************************************************)
(* XPMGenerator (xpm-generator)                                            *)
(***************************************************************************)
ProgramName == <<"K","i","t">>

\* formatSamplePath with useRelativePaths and no outputDirectory:
\* "samples/" + sampleName.replace(/[\\/:*?"<>|]/g, "_")
PathUnsafeChars == {"\\", "/", ":", "*", "?", "\"", "<", ">", "|"}
formatSamplePath(sampleName) ==
    <<"s","a","m","p","l","e","s","/">> \o
    [i \in 1..Len(sampleName) |->
        IF sampleName[i] \in PathUnsafeChars THEN "_" ELSE sampleName[i]]

\* generateDrumKitXPM(samples), with includeSettings as XPMUtils sets it
generateDrumKitXPM(smpls) ==
    <<Decl, OpenTag("DrumProgram", << <<"name", ProgramName>> >>), OpenTag("Pads", <<>>)>> \o
    Concat([index \in 1..Len(smpls) |->
        << OpenTag("Pad", << <<"padIndex", NumberToString(index - 1)>> >>),
           EmptyTag("Sample", << <<"name", smpls[index].name>>,
                                 <<"path", formatSamplePath(smpls[index].name)>> >>),
           EmptyTag("Settings", << <<"level", <<"1",".","0">> >>,
                                   <<"pan", <<"0",".","0">> >>, <<"tune", <<"0">> >> >>),
           CloseTag("Pad") >>]) \o
    <<CloseTag("Pads"), CloseTag("DrumProgram")>>

\* Array.from(keyMapping.entries()).sort((a, b) => a[0] - b[0]) for a mapping
\* given as a function from keys to values
RECURSIVE sortedEntries(_)
sortedEntries(mapping) ==
    IF DOMAIN mapping = {} THEN <<>>
    ELSE LET least == CHOOSE key \in DOMAIN mapping : \A other \in DOMAIN mapping : key <= other
         IN << [key |-> least, value |-> mapping[least]] >> \o
            sortedEntries([key \in DOMAIN mapping \ {least} |-> mapping[key]])

\* generateInstrumentXPM: the key range of sortedEntries[index] (0-based index)
instrumentKeyRange(entries, index) ==
    LET midiNote == entries[index + 1].key
        lowKey == IF index > 0
                  THEN ((entries[index].key + midiNote) \div 2) + 1
                  ELSE 0
        highKey == IF index < Len(entries) - 1
                   THEN (midiNote + entries[index + 2].key) \div 2
                   ELSE 127
    IN [root |-> midiNote, low |-> lowKey, high |-> highKey]

KeyRangeTag(r) ==
    EmptyTag("KeyRange", << <<"root", NumberToString(r.root)>>,
                            <<"low", NumberToString(r.low)>>,
                            <<"high", NumberToString(r.high)>> >>)
VelocityRangeTag(low, high) ==
    EmptyTag("VelocityRange", << <<"low", NumberToString(low)>>,
                                 <<"high", NumberToString(high)>> >>)
SampleTag(sample) ==
    EmptyTag("Sample", << <<"name", sample.name>>,
                          <<"path", formatSamplePath(sample.name)>> >>)

\* generateInstrumentXPM(samples, keyMapping)
generateInstrumentXPM(keyMapping) ==
    LET entries == sortedEntries(keyMapping)
    IN <<Decl, OpenTag("KeygroupProgram", << <<"name", ProgramName>> >>),
         OpenTag("Keygroups", <<>>)>> \o
       Concat([i \in 1..Len(entries) |->
           << OpenTag("Keygroup", << <<"index", NumberToString(i - 1)>> >>),
              OpenTag("Zone", <<>>),
              SampleTag(entries[i].value),
              KeyRangeTag(instrumentKeyRange(entries, i - 1)),
              VelocityRangeTag(1, 127),
              CloseTag("Zone"),
              CloseTag("Keygroup") >>]) \o
       <<CloseTag("Keygroups"), CloseTag("KeygroupProgram")>>

\* generateMultiVelocityXPM: the key range of sortedEntries[index]
multiVelocityKeyRange(entries, index) ==
    LET midiNote == entries[index + 1].key
        lowKey == IF index > 0
                  THEN ((entries[index].key + midiNote) \div 2) + 1
                  ELSE 0
        highKey == IF index < Len(entries) - 1
                   THEN (midiNote + entries[index + 2].key) \div 2
                   ELSE 127
    IN [root |-> midiNote, low |-> lowKey, high |-> highKey]

\* generateMultiVelocityXPM: the velocity range of the velIndex-th (0-based) of
\* count samples on one key
multiVelocityRange(count, velIndex) ==
    LET velocityStep == 127 \div count
    IN [low |-> velIndex * velocityStep + 1,
        high |-> IF velIndex = count - 1 THEN 127 ELSE (velIndex + 1) * velocityStep]

\* generateMultiVelocityXPM(samples, keyVelocityMapping); entries whose sample
\* list is empty write nothing
generateMultiVelocityXPM(keyVelocityMapping) ==
    LET entries == sortedEntries(keyVelocityMapping)
    IN <<Decl, OpenTag("KeygroupProgram", << <<"name", ProgramName>> >>),
         OpenTag("Keygroups", <<>>)>> \o
       Concat([i \in 1..Len(entries) |->
           IF entries[i].value = <<>> THEN <<>>
           ELSE << OpenTag("Keygroup", << <<"index", NumberToString(i - 1)>> >>) >> \o
                Concat([v \in 1..Len(entries[i].value) |->
                    LET vr == multiVelocityRange(Len(entries[i].value), v - 1)
                    IN << OpenTag("Zone", <<>>),
                          SampleTag(entries[i].value[v]),
                          KeyRangeTag(multiVelocityKeyRange(entries, i - 1)),
                          VelocityRangeTag(vr.low, vr.high),
                          CloseTag("Zone") >>]) \o
                << CloseTag("Keygroup") >>]) \o
       <<CloseTag("Keygroups"), CloseTag("KeygroupProgram")>>

(***************************************************************************)
(* VelocityLayerManager (velocity-layer-manager)                           *)
(***************************************************************************)

\* the first position where `prefix` is followed by a digit, or 0:
\* the match of /prefix(\d+)/ in an already lower-cased name
PrefixDigitsAt(name, prefix) ==
    LET hits == { i \in 1..Len(name) :
                    /\ i + Len(prefix) <= Len(name)
                    /\ SubSeq(name, i, i + Len(prefix) - 1) = prefix
                    /\ IsDigit(name[i + Len(prefix)]) }
    IN IF hits = {} THEN 0 ELSE CHOOSE i \in hits : \A j \in hits : i <= j

\* VelocityLayerManager.extractVelocityFromFilename
layerVelocityFromFilename(filename) ==
    LET name == toLowerCase(filename)
        vel == <<"v","e","l">>
        atVel == PrefixDigitsAt(name, vel)
        atV == PrefixDigitsAt(name, <<"v">>)
        explicit == IF atVel > 0 THEN DigitsValue(name, atVel + 3, 0)
                    ELSE IF atV > 0 THEN DigitsValue(name, atV + 1, 0)
                    ELSE Null
    IN IF explicit # Null /\ explicit >= 0 /\ explicit <= 127 THEN explicit
       ELSE IF includes(name, <<"p","p","p">>) THEN 10
       ELSE IF includes(name, <<"p","p">>) THEN 25
       ELSE IF includes(name, <<"p">>) THEN 40
       ELSE IF includes(name, <<"m","p">>) THEN 60
       ELSE IF includes(name, <<"m","f">>) THEN 80
       ELSE IF includes(name, <<"f">>) THEN 100
       ELSE IF includes(name, <<"f","f">>) THEN 115
       ELSE IF includes(name, <<"f","f","f">>) THEN 127
       ELSE 90

\* the note names of the samples, in order of first appearance
RECURSIVE noteNamesInOrder(_)
noteNamesInOrder(smpls) ==
    IF smpls = <<>> THEN <<>>
    ELSE LET before == noteNamesInOrder(SubSeq(smpls, 1, Len(smpls) - 1))
             noteName == extractNoteFromFilename(smpls[Len(smpls)].name)
         IN IF noteName = <<>> \/ \E i \in 1..Len(before) : before[i] = noteName
            THEN before
            ELSE Append(before, noteName)

\* the samples named with noteName, sorted by the velocity their names carry
samplesOfNote(smpls, noteName) ==
    LET mine == SelectSeq(smpls, LAMBDA sm : extractNoteFromFilename(sm.name) = noteName)
        keyed == [i \in 1..Len(mine) |->
                    [sample |-> mine[i], velocity |-> layerVelocityFromFilename(mine[i].name)]]
        sorted == SortBy(keyed, "velocity")
    IN [i \in 1..Len(sorted) |-> sorted[i].sample]

\* VelocityLayerManager.organizeVelocityLayers: Map<midiNote, Sample[]>; a note
\* name set later replaces an earlier one with the same number
organizeVelocityLayers(smpls) ==
    LET names == noteNamesInOrder(smpls)
        keys == { noteToMidi(names[i]) : i \in 1..Len(names) } \ {-1}
        lastOf(key) == CHOOSE i \in 1..Len(names) :
                           /\ noteToMidi(names[i]) = key
                           /\ \A j \in (i+1)..Len(names) : noteToMidi(names[j]) # key
    IN [key \in keys |-> samplesOfNote(smpls, names[lastOf(key)])]

\* VelocityLayerManager.generateVelocityLayers: the layers of one key
generateVelocityLayers(keySamples) ==
    LET MaxOf(a, b) == IF a >= b THEN a ELSE b
        step == 128 \div MaxOf(Len(keySamples), 1)
    IN [i \in 1..Len(keySamples) |->
          [sample |-> keySamples[i],
           lowVelocity |-> (i - 1) * step + 1,
           highVelocity |-> IF i - 1 < Len(keySamples) - 1 THEN i * step ELSE 127]]

(***************************************************************************)
(* XPMUtils.createXPM (xpm-utils.ts)                                       *)
(***************************************************************************)

\* XPMUtils.extractMidiNoteFromFilename: /([A-Ga-g][#b]?[0-9])/i, Null if none
extractMidiNoteFromFilename(filename) ==
    IF \E i \in 1..Len(filename) : NoteRegexAt(filename, i) > 0
    THEN LET i == CHOOSE k \in 1..Len(filename) :
                     /\ NoteRegexAt(filename, k) > 0
                     /\ \A j \in 1..(k-1) : NoteRegexAt(filename, j) = 0
         IN noteToMidi(toUpperCase(SubSeq(filename, i, i + NoteRegexAt(filename, i) - 1)))
    ELSE Null

utilsMidiNote(sample) ==
    IF extractMidiNoteFromFilename(sample.name) # Null
    THEN extractMidiNoteFromFilename(sample.name)
    ELSE IF sample.buffer THEN detectPitch(sample) ELSE Null

\* XPMUtils.mapSamplesToKeys: Map<midiNote, Sample>, the last sample set wins
mapSamplesToKeys(smpls) ==
    LET keys == { utilsMidiNote(smpls[i]) : i \in 1..Len(smpls) } \ {Null}
        lastOf(key) == CHOOSE i \in 1..Len(smpls) :
                           /\ utilsMidiNote(smpls[i]) = key
                           /\ \A j \in (i+1)..Len(smpls) : utilsMidiNote(smpls[j]) # key
    IN [key \in keys |-> smpls[lastOf(key)]]

\* SampleAnalyzer.validateSamples(samples).valid: samples without audio are
\* invalid (the audio-quality checks are taken to pass)
validSamples(smpls) == SelectSeq(smpls, LAMBDA sm : sm.buffer)

\* XPMUtils.createXPM(samples, options) of an XPMUtils of the given type
utilsCreateXPM(smpls, type, options) ==
    LET processedSamples == IF options.validateSamples THEN validSamples(smpls) ELSE smpls
        keyMapping == IF options.autoMapSamples THEN mapSamplesToKeys(processedSamples)
                      ELSE [key \in {} |-> 0]
    IN IF type = "drumkit" THEN generateDrumKitXPM(processedSamples)
       ELSE IF options.detectVelocityLayers
            THEN generateMultiVelocityXPM(organizeVelocityLayers(processedSamples))
            ELSE generateInstrumentXPM(keyMapping)

(***************************************************************************)
(* XPMWriter (xpm-writer, in batch-processor.ts)                           *)
(***************************************************************************)
InstrumentName == <<"M","y">>
Timestamp == <<"T">>

\* XPMWriter.createZonesFromInstrument: layers without a registered sample
\* write no zone
zonesOfKeygroup(keygroup) ==
    LET layers == SelectSeq(keygroup.velocityLayers,
                            LAMBDA layer : layer.sampleId # Null /\ getSample(layer.sampleId) # {})
    IN [i \in 1..Len(layers) |->
          [file |-> (CHOOSE sm \in getSample(layers[i].sampleId) : TRUE).name,
           root |-> keygroup.rootNote,
           low |-> keygroup.lowNote,
           high |-> keygroup.highNote,
           velLow |-> layers[i].lowVelocity,
           velHigh |-> layers[i].highVelocity]]

createZonesFromInstrument(keygroups) ==
    Concat([i \in 1..Len(keygroups) |-> zonesOfKeygroup(keygroups[i])])

ProgramInfoTokens(name, type) ==
    << OpenTag("ProgramInfo", <<>>),
       OpenTag("Name", <<>>), TextNode(name), CloseTag("Name"),
       OpenTag("Type", <<>>), TextNode(type), CloseTag("Type"),
       OpenTag("Created", <<>>), TextNode(Timestamp), CloseTag("Created"),
       CloseTag("ProgramInfo") >>

KeygroupTypeText == <<"k","e","y","g","r","o","u","p">>
DrumkitTypeText == <<"d","r","u","m","k","i","t">>

\* XPMWriter.generateXPMContent(zones) of a writer of type "keygroup"
generateXPMContent(zones) ==
    << Decl, OpenTag("PluginProgram", << <<"name", InstrumentName>>,
                                         <<"type", KeygroupTypeText>> >>) >> \o
    ProgramInfoTokens(InstrumentName, KeygroupTypeText) \o
    << OpenTag("Keygroup", <<>>) >> \o
    [i \in 1..Len(zones) |->
        EmptyTag("Zone", << <<"file", zones[i].file>>,
                            <<"root", NumberToString(zones[i].root)>>,
                            <<"low", NumberToString(zones[i].low)>>,
                            <<"high", NumberToString(zones[i].high)>>,
                            <<"vel_low", NumberToString(zones[i].velLow)>>,
                            <<"vel_high", NumberToString(zones[i].velHigh)>> >>)] \o
    << CloseTag("Keygroup"), CloseTag("PluginProgram") >>

\* XPMWriter.createXPM(instrument)
createXPM(keygroups) == generateXPMContent(createZonesFromInstrument(keygroups))

\* XPMWriter.createDrumKitXPM(kitName, padAssignments): padAssignments is the
\* sequence of <<padId, sampleId>> in the object's key order
createDrumKitXPM(kitName, padAssignments) ==
    << Decl, OpenTag("PluginProgram", << <<"name", kitName>>,
                                         <<"type", DrumkitTypeText>> >>) >> \o
    ProgramInfoTokens(kitName, DrumkitTypeText) \o
    << OpenTag("DrumKit", <<>>) >> \o
    Concat([i \in 1..Len(padAssignments) |->
        IF getSample(padAssignments[i][2]) = {} THEN <<>>
        ELSE << EmptyTag("Pad", << <<"id", padAssignments[i][1]>>,
                   <<"sample", (CHOOSE sm \in getSample(padAssignments[i][2]) : TRUE).name>> >>) >>]) \o
    << CloseTag("DrumKit"), CloseTag("PluginProgram") >>

(***************************************************************************)
(* MultiLayerExporter (multi-layer-exporter.ts)                            *)
(***************************************************************************)

\* MultiLayerExporter.extractVelocityFromFilename
exporterVelocityFromFilename(filename) ==
    LET name == toLowerCase(filename)
    IN IF includes(name, <<"s","o","f","t">>) THEN 40
       ELSE IF includes(name, <<"m","e","d">>) THEN 80
       ELSE IF includes(name, <<"h","a","r","d">>) THEN 120
       ELSE 100

\* MultiLayerExporter.extractSampleInfo, for a sample with audio: the pitch
\* estimate first, the note name of the file second
extractSampleInfo(sample) ==
    LET noteName == extractNoteFromFilename(sample.name)
    IN [id |-> sample.id,
        noteName |-> noteName,
        velocity |-> exporterVelocityFromFilename(sample.name),
        pitch |-> IF detectPitch(sample) # Null THEN detectPitch(sample)
                  ELSE IF noteName # <<>> THEN noteToMidi(noteName)
                  ELSE Null]

\* the zones processAndExport collects before it assigns velocity ranges
RECURSIVE exporterZones(_)
exporterZones(sampleIds) ==
    IF sampleIds = <<>> THEN <<>>
    ELSE LET rest == exporterZones(SubSeq(sampleIds, 1, Len(sampleIds) - 1))
             found == getSample(sampleIds[Len(sampleIds)])
         IN IF found = {} THEN rest
            ELSE LET sample == CHOOSE sm \in found : TRUE
                     info == extractSampleInfo(sample)
                 IN IF ~sample.buffer \/ info.pitch = Null \/ info.pitch = 0 THEN rest
                    ELSE Append(rest, [file |-> sample.name, root |-> info.pitch,
                                       low |-> info.pitch, high |-> info.pitch,
                                       velLow |-> info.velocity, velHigh |-> info.velocity])

\* assignVelocityRanges, the zones of one root (already sorted by velLow).
\* rangeSize = 128 / length is a float in the source; floor(i * rangeSize) is
\* (i * 128) \div length for every length below 49
rootVelocityRanges(rootZones) ==
    IF Len(rootZones) = 1
    THEN << [rootZones[1] EXCEPT !.velLow = 0, !.velHigh = 127] >>
    ELSE [i \in 1..Len(rootZones) |->
            [rootZones[i] EXCEPT
               !.velLow = ((i - 1) * 128) \div Len(rootZones),
               !.velHigh = IF i = Len(rootZones) THEN 127
                           ELSE ((i * 128) \div Len(rootZones)) - 1]]

\* MultiLayerExporter.assignVelocityRanges(zones): the roots are visited in
\* ascending order (integer keys of an object)
RECURSIVE assignRootsFrom(_, _)
assignRootsFrom(zones, roots) ==
    IF roots = {} THEN <<>>
    ELSE LET root == CHOOSE r \in roots : \A o \in roots : r <= o
             rootZones == SortBy(SelectSeq(zones, LAMBDA z : z.root = root), "velLow")
         IN rootVelocityRanges(rootZones) \o assignRootsFrom(zones, roots \ {root})

assignVelocityRanges(zones) ==
    assignRootsFrom(zones, { zones[i].root : i \in 1..Len(zones) })

\* MultiLayerExporter.processAndExport(sampleIds)
processAndExport(sampleIds) ==
    generateXPMContent(assignVelocityRanges(exporterZones(sampleIds)))

(***************************************************************************)
(* The XML parser behind XPMImporter (DOMParser, "text/xml")               *)
(***************************************************************************)
IsElement(t) == t.k \in {"open", "empty"}

\* character data and attribute values may hold no "<" and no "&" that does
\* not start a reference "&...;"
CleanChars(v) ==
    \A i \in 1..Len(v) :
        /\ v[i] # "<"
        /\ v[i] = "&" => \E j \in (i+2)..Len(v) :
                             /\ v[j] = ";"
                             /\ \A m \in (i+1)..(j-1) : v[m] \notin {"&", "<", " ", ";"}

CleanToken(t) ==
    CASE t.k \in {"open", "empty"} ->
            /\ \A i \in 1..Len(t.a) : CleanChars(t.a[i][2]) /\ "\"" \notin {t.a[i][2][m] : m \in 1..Len(t.a[i][2])}
            /\ \A i, j \in 1..Len(t.a) : t.a[i][1] = t.a[j][1] => i = j
      [] t.k = "text" -> CleanChars(t.v)
      [] t.k = "broken" -> FALSE
      [] OTHER -> TRUE

\* the nesting of the tokens from position i on, with the open elements in
\* `stack` and `roots` top-level elements seen
RECURSIVE Nested(_, _, _, _)
Nested(doc, i, stack, roots) ==
    IF i > Len(doc) THEN stack = <<>> /\ roots = 1
    ELSE LET t == doc[i]
         IN CASE t.k = "decl" -> i = 1 /\ Nested(doc, i + 1, stack, roots)
              [] t.k = "open" ->
                    /\ stack # <<>> \/ roots = 0
                    /\ Nested(doc, i + 1, <<t.n>> \o stack,
                              IF stack = <<>> THEN roots + 1 ELSE roots)
              [] t.k = "empty" ->
                    /\ stack # <<>> \/ roots = 0
                    /\ Nested(doc, i + 1, stack, IF stack = <<>> THEN roots + 1 ELSE roots)
              [] t.k = "close" ->
                    /\ stack # <<>>
                    /\ Head(stack) = t.n
                    /\ Nested(doc, i + 1, Tail(stack), roots)
              [] t.k = "text" -> stack # <<>> /\ Nested(doc, i + 1, stack, roots)
              [] OTHER -> FALSE

\* the document parses without a parsererror
WellFormed(doc) ==
    /\ \A i \in 1..Len(doc) : CleanToken(doc[i])
    /\ Nested(doc, 1, <<>>, 0)

\* the position of the close tag of the element opened at i (i itself for an
\* empty element), in a well-formed document
RECURSIVE FindClose(_, _, _)
FindClose(doc, j, depth) ==
    IF doc[j].k = "open" THEN FindClose(doc, j + 1, depth + 1)
    ELSE IF doc[j].k = "close"
         THEN (IF depth = 1 THEN j ELSE FindClose(doc, j + 1, depth - 1))
         ELSE FindClose(doc, j + 1, depth)
ElementEnd(doc, i) == IF doc[i].k = "empty" THEN i ELSE FindClose(doc, i + 1, 1)

Indices(doc) == [i \in 1..Len(doc) |-> i]

\* element.querySelectorAll(name): the positions of the descendants of the
\* element at i that are named `name`, in document order (i = 0: the document)
querySelectorAll(doc, i, name) ==
    LET last == IF i = 0 THEN Len(doc) ELSE ElementEnd(doc, i)
    IN SelectSeq(Indices(doc),
                 LAMBDA j : j > i /\ j <= last /\ IsElement(doc[j]) /\ doc[j].n = name)

\* element.getAttribute(name): <<>> stands for null
getAttribute(t, name) ==
    IF \E i \in 1..Len(t.a) : t.a[i][1] = name
    THEN t.a[CHOOSE i \in 1..Len(t.a) : t.a[i][1] = name][2]
    ELSE <<>>

\* getAttribute(name) || fallback, of the first descendant `child` of the
\* element at i, or of nothing when there is no such child (child?.getAttribute)
childAttribute(doc, i, child, name, fallback) ==
    LET found == querySelectorAll(doc, i, child)
        value == IF found = <<>> THEN <<>> ELSE getAttribute(doc[found[1]], name)
    IN IF value = <<>> THEN fallback ELSE value

(***************************************************************************)
(* XPMImporter (xpm-importer)                                              *)
(***************************************************************************)

\* XPMImporter.extractFilenameFromPath
extractFilenameFromPath(path) ==
    LET slashes == { i \in 1..Len(path) : path[i] \in {"/", "\\"} }
        from == IF slashes = {} THEN 1 ELSE (CHOOSE i \in slashes : \A j \in slashes : j <= i) + 1
    IN SubSeq(path, from, Len(path))

\* the zone read from the Zone element at z; <<>> when it has no Sample child
importZone(doc, z) ==
    IF querySelectorAll(doc, z, "Sample") = <<>> THEN <<>>
    ELSE LET sampleElement == doc[querySelectorAll(doc, z, "Sample")[1]]
             sampleName == getAttribute(sampleElement, "name")
             samplePath == IF getAttribute(sampleElement, "path") = <<>> THEN sampleName
                           ELSE getAttribute(sampleElement, "path")
         IN << [sample |-> [name |-> sampleName, path |-> samplePath],
                keyRange |->
                  [root |-> parseInt(childAttribute(doc, z, "KeyRange", "root", <<"6","0">>)),
                   low |-> parseInt(childAttribute(doc, z, "KeyRange", "low", <<"0">>)),
                   high |-> parseInt(childAttribute(doc, z, "KeyRange", "high", <<"1","2","7">>))],
                velocityRange |->
                  [low |-> parseInt(childAttribute(doc, z, "VelocityRange", "low", <<"1">>)),
                   high |-> parseInt(childAttribute(doc, z, "VelocityRange", "high", <<"1","2","7">>))]] >>

\* XPMImporter.extractKeygroups
extractKeygroups(doc) ==
    LET keygroupElements == querySelectorAll(doc, 0, "Keygroup")
    IN [g \in 1..Len(keygroupElements) |->
          LET e == keygroupElements[g]
              indexAttr == getAttribute(doc[e], "index")
              zoneElements == querySelectorAll(doc, e, "Zone")
          IN [index |-> parseInt(IF indexAttr = <<>> THEN NumberToString(g - 1) ELSE indexAttr),
              zones |-> Concat([z \in 1..Len(zoneElements) |-> importZone(doc, zoneElements[z])])]]

\* XPMImporter.extractPads (the Settings of a pad are not kept in the model)
extractPads(doc) ==
    LET padElements == querySelectorAll(doc, 0, "Pad")
    IN Concat([p \in 1..Len(padElements) |->
          LET e == padElements[p]
              indexAttr == IF getAttribute(doc[e], "padIndex") # <<>>
                           THEN getAttribute(doc[e], "padIndex")
                           ELSE IF getAttribute(doc[e], "id") # <<>>
                           THEN getAttribute(doc[e], "id")
                           ELSE NumberToString(p - 1)
              sampleElements == querySelectorAll(doc, e, "Sample")
          IN IF sampleElements = <<>> THEN <<>>
             ELSE LET sampleName == getAttribute(doc[sampleElements[1]], "name")
                      pathAttr == getAttribute(doc[sampleElements[1]], "path")
                  IN << [index |-> parseInt(indexAttr),
                         sample |-> [name |-> sampleName,
                                     path |-> IF pathAttr = <<>> THEN sampleName ELSE pathAttr]] >>])

\* Array.from(new Set(paths)): the distinct paths in order of first appearance
RECURSIVE uniquePaths(_)
uniquePaths(paths) ==
    IF paths = <<>> THEN <<>>
    ELSE LET before == uniquePaths(SubSeq(paths, 1, Len(paths) - 1))
         IN IF \E i \in 1..Len(before) : before[i] = paths[Len(paths)] THEN before
            ELSE Append(before, paths[Len(paths)])

programSamples(paths) ==
    LET unique == uniquePaths(paths)
    IN [i \in 1..Len(unique) |-> [name |-> extractFilenameFromPath(unique[i]), path |-> unique[i]]]

\* rootElement.nodeName.toLowerCase(), for the root elements the writers use
lowerNodeName(n) ==
    CASE n = "DrumProgram" -> "drumprogram"
      [] n = "PluginProgram" -> "pluginprogram"
      [] n = "KeygroupProgram" -> "keygroupprogram"
      [] OTHER -> n

\* XPMImporter.determineProgramType
determineProgramType(rootElement) ==
    LET nodeName == lowerNodeName(rootElement.n)
    IN IF \/ nodeName = "drumprogram"
          \/ nodeName = "pluginprogram" /\ getAttribute(rootElement, "type") = DrumkitTypeText
       THEN "drumkit" ELSE "instrument"

\* XPMImporter.parseXPMContent(content): the program, or the error it throws
parseXPMContent(doc) ==
    IF ~WellFormed(doc) THEN [error |-> "Failed to parse XPM content"]
    ELSE LET rootElement == doc[CHOOSE i \in 1..Len(doc) :
                                   IsElement(doc[i]) /\ \A j \in 1..(i-1) : ~IsElement(doc[j])]
             programType == determineProgramType(rootElement)
             programName == IF getAttribute(rootElement, "name") = <<>>
                            THEN <<"I","m","p","o","r","t","e","d"," ","P","r","o","g","r","a","m">>
                            ELSE getAttribute(rootElement, "name")
             keygroups == extractKeygroups(doc)
             pads == extractPads(doc)
         IN IF programType = "instrument"
            THEN [type |-> "instrument", name |-> programName,
                  keygroups |-> keygroups,
                  samples |-> programSamples(Concat([g \in 1..Len(keygroups) |->
                      [z \in 1..Len(keygroups[g].zones) |-> keygroups[g].zones[z].sample.path]]))]
            ELSE [type |-> "drumkit", name |-> programName,
                  pads |-> pads,
                  samples |-> programSamples([p \in 1..Len(pads) |-> pads[p].sample.path])]

\* SampleManager.padAssignments as constructed: 16 pads, none with a sample
DefaultPadAssignments == [padId \in 0..15 |-> Null]

\* the pads of the kit of createDefaultKit that hold a sample: none; a pad is
\* <<bankId, padNumber>> and every pad outside the domain holds null
DefaultKitPads == [pad \in {} |-> Null]

(***************************************************************************)
(* Sequencer (sequencer.ts)                                                *)
(***************************************************************************)

\* Date.now() when the services are constructed and first called
Now == 1000

\* Sequencer.createNewPattern(options) at time now: the fields of the pattern
\* the playback reads, stored under `pattern_${now}`. An option that was not
\* given is 0 here: `options.stepsPerBar || 16` takes undefined and 0 alike
newPattern(options) ==
    [stepsPerBar |-> IF options.stepsPerBar = 0 THEN 16 ELSE options.stepsPerBar,
     barsPerPattern |-> IF options.barsPerPattern = 0 THEN 1 ELSE options.barsPerPattern]

createNewPattern(seq, options, now) ==
    LET id == <<"pattern", now>>
    IN [seq EXCEPT
          !.patterns = [p \in DOMAIN seq.patterns \cup {id} |->
                           IF p = id THEN newPattern(options) ELSE seq.patterns[p]],
          !.currentPatternId = IF seq.currentPatternId = <<>> THEN id ELSE @,
          !.clock = now]

\* Sequencer.getCurrentPattern(): the pattern in a one-element sequence,
\* the empty sequence for null
getCurrentPattern(seq) ==
    IF seq.currentPatternId = <<>> THEN <<>>
    ELSE IF seq.currentPatternId \in DOMAIN seq.patterns
    THEN <<seq.patterns[seq.currentPatternId]>>
    ELSE <<>>

\* the fields of a new Sequencer, and its constructor, which creates a
\* default pattern; intervalId holds the pattern the timer callback closed over
SequencerFields ==
    [patterns |-> [p \in {} |-> <<>>], currentPatternId |-> <<>>, isPlaying |-> FALSE,
     currentStep |-> 0, tempo |-> 120, intervalId |-> <<>>, clock |-> Now]

SequencerConstructed ==
    createNewPattern(SequencerFields, [stepsPerBar |-> 0, barsPerPattern |-> 0], Now)

\* the services as constructed, and no call of a stateless function
ServicesConstructed ==
    /\ managerPads = DefaultPadAssignments
    /\ drumKit = DefaultKitPads
    /\ args = <<>>
    /\ sequencer = SequencerConstructed

\* SampleManager.loadSample(file)
LoadSample(file) ==
    /\ nextId < MaxSamples
    /\ nextId' = nextId + 1
    /\ samples' = Append(samples, [id |-> nextId + 1, name |-> file.name,
                                   buffer |-> file.buffer, pitch |-> file.pitch])
    /\ ret' = [op |-> "loadSample", id |-> nextId + 1]
    /\ UNCHANGED <<sequencer, instrument, content, data, managerPads, drumKit, args>>

\* InstrumentService.autoMapSamples(instrumentId, sampleIds), called by the
\* instrument view with the ids of all loaded samples
AutoMapSamples(instrumentId) ==
    LET sampleIds == allSampleIds
        mapped == autoMapSamples(sampleIds)
    IN /\ samples # <<>>
       /\ IF instrumentId # "instrument_0" \/ mapped = <<>>
          THEN /\ ret' = [op |-> "autoMapSamples", count |-> 0]
               /\ UNCHANGED instrument
          ELSE /\ instrument' = autoMapKeygroups(sampleIds)
               /\ ret' = [op |-> "autoMapSamples", count |-> Len(mapped)]
       /\ UNCHANGED <<sequencer, samples, nextId, content, data, managerPads, drumKit, args>>

\* InstrumentService.exportInstrument(instrumentId, options): the XPM text of
\* the Blob it returns
ExportInstrument(useMultiLayerExport) ==
    LET layerIds == Concat([g \in 1..Len(instrument) |->
                       LET layers == SelectSeq(instrument[g].velocityLayers,
                                               LAMBDA layer : layer.sampleId # Null)
                       IN [i \in 1..Len(layers) |-> layers[i].sampleId]])
    IN /\ ret' = [op |-> "exportInstrument", multi |-> useMultiLayerExport,
                  doc |-> IF useMultiLayerExport THEN processAndExport(layerIds)
                          ELSE createXPM(instrument)]
       /\ UNCHANGED <<sequencer, samples, nextId, instrument, content, data, managerPads, drumKit, args>>

\* XPMUtils.createXPM(samples, options) as the multi-velocity view calls it,
\* with all loaded samples selected
UtilsCreateXPM(type, detectVelocityLayers) ==
    /\ samples # <<>>
    /\ ret' = [op |-> "createXPM", type |-> type, detect |-> detectVelocityLayers,
               doc |-> utilsCreateXPM(samples, type,
                          [autoMapSamples |-> TRUE, validateSamples |-> TRUE,
                           detectVelocityLayers |-> detectVelocityLayers])]
    /\ UNCHANGED <<sequencer, samples, nextId, instrument, content, data, managerPads, drumKit, args>>

\* PresetGenerator.generateDrumkitPreset: pads A01, A02, ... in sample order,
\* written by XPMWriter.createDrumKitXPM
padLabel(i) == <<"A", "0">> \o NumberToString(i)
CreateDrumKitXPM ==
    /\ samples # <<>>
    /\ ret' = [op |-> "createDrumKitXPM",
               doc |-> createDrumKitXPM(InstrumentName,
                          [i \in 1..Len(samples) |-> <<padLabel(i), samples[i].id>>])]
    /\ UNCHANGED <<sequencer, samples, nextId, instrument, content, data, managerPads, drumKit, args>>

\* VelocityLayerManager.generateVelocityLayers(organizeVelocityLayers(samples))
GenerateVelocityLayers ==
    LET samplesByKey == organizeVelocityLayers(samples)
    IN /\ samples # <<>>
       /\ ret' = [op |-> "generateVelocityLayers",
                  layers |-> [key \in DOMAIN samplesByKey |->
                                 generateVelocityLayers(samplesByKey[key])]]
       /\ UNCHANGED <<sequencer, samples, nextId, instrument, content, data, managerPads, drumKit, args>>

WriterOps == {"exportInstrument", "createXPM", "createDrumKitXPM"}

\* XPMImporter.parseXPMContent(content) on the document just written
ParseWritten ==
    /\ ret.op \in WriterOps
    /\ ret' = [op |-> "parseXPMContent", of |-> ret, program |-> parseXPMContent(ret.doc)]
    /\ UNCHANGED <<sequencer, samples, nextId, instrument, content, data, managerPads, drumKit, args>>

InitInstrument ==
    /\ samples = <<>>
    /\ nextId = 0
    /\ instrument = DefaultKeygroups
    /\ ret = [op |-> "init"]
    /\ content = <<>>
    /\ data = <<>>
    /\ ServicesConstructed

NextInstrument ==
    \/ \E file \in SampleFiles : LoadSample(file)
    \/ \E instrumentId \in InstrumentIds : AutoMapSamples(instrumentId)
    \/ \E useMultiLayerExport \in BOOLEAN : ExportInstrument(useMultiLayerExport)
    \/ \E type \in {"drumkit", "instrument"}, detect \in BOOLEAN : UtilsCreateXPM(type, detect)
    \/ CreateDrumKitXPM
    \/ GenerateVelocityLayers
    \/ ParseWritten

SpecInstrument == InitInstrument /\ [][NextInstrument]_vars

(***************************************************************************)
(* Properties of the auto-mapper and the writers (SpecInstrument).         *)
(***************************************************************************)

\* the ranges [root, low, high] cover every note 0..127 exactly once and
\* each holds its own root
RangesPartition(ranges) ==
    /\ \A n \in 0..127 :
          Cardinality({ i \in 1..Len(ranges) : ranges[i].low <= n /\ n <= ranges[i].high }) = 1
    /\ \A i \in 1..Len(ranges) : ranges[i].low <= ranges[i].root /\ ranges[i].root <= ranges[i].high

\* the layers [low, high] cover every velocity 0..127 exactly once and the
\* last one ends at 127
LayersPartition(layers) ==
    /\ layers # <<>>
    /\ \A v \in 0..127 :
          Cardinality({ i \in 1..Len(layers) : layers[i].low <= v /\ v <= layers[i].high }) = 1
    /\ layers[Len(layers)].high = 127

keygroupRanges(keygroups) ==
    [i \in 1..Len(keygroups) |-> [root |-> keygroups[i].rootNote,
                                  low |-> keygroups[i].lowNote,
                                  high |-> keygroups[i].highNote]]

DistinctRoots(ranges) ==
    \A i, j \in 1..Len(ranges) : ranges[i].root = ranges[j].root => i = j

\* the KeyRange elements of a written document, as numbers
writtenKeyRanges(doc) ==
    LET at == SelectSeq(Indices(doc), LAMBDA j : IsElement(doc[j]) /\ doc[j].n = "KeyRange")
    IN [i \in 1..Len(at) |-> [root |-> parseInt(getAttribute(doc[at[i]], "root")),
                              low |-> parseInt(getAttribute(doc[at[i]], "low")),
                              high |-> parseInt(getAttribute(doc[at[i]], "high"))]]

AutoMapped == ret.op = "autoMapSamples" /\ ret.count >= 1
WroteInstrumentXPM ==
    /\ ret.op = "createXPM" /\ ret.type = "instrument" /\ ~ret.detect
    /\ writtenKeyRanges(ret.doc) # <<>>

\* C1: for N >= 1 samples with pairwise distinct resolved roots, the keygroups
\* of InstrumentService.autoMapSamples and the key ranges written by
\* generateInstrumentXPM partition [0,127] exactly, each root inside its range.
C1_KeygroupsPartition ==
    /\ (AutoMapped /\ DistinctRoots(keygroupRanges(instrument)))
          => RangesPartition(keygroupRanges(instrument))
    /\ (WroteInstrumentXPM /\ DistinctRoots(writtenKeyRanges(ret.doc)))
          => RangesPartition(writtenKeyRanges(ret.doc))

\* the same, only for roots that are MIDI note numbers (0..127): this part of
\* C1 holds of the code
InMidiRange(ranges) == \A i \in 1..Len(ranges) : ranges[i].root \in 0..127
KeygroupsPartitionInMidiRange ==
    /\ (AutoMapped /\ DistinctRoots(keygroupRanges(instrument))
                   /\ InMidiRange(keygroupRanges(instrument)))
          => RangesPartition(keygroupRanges(instrument))
    /\ (WroteInstrumentXPM /\ InMidiRange(writtenKeyRanges(ret.doc)))
          => RangesPartition(writtenKeyRanges(ret.doc))

\* the zone [name, root, low, high, velLow, velHigh] of every layer of the
\* instrument, keygroup by keygroup
instrumentZones(keygroups) ==
    [g \in 1..Len(keygroups) |->
        [l \in 1..Len(keygroups[g].velocityLayers) |->
            LET layer == keygroups[g].velocityLayers[l]
            IN [name |-> (CHOOSE sm \in getSample(layer.sampleId) : TRUE).name,
                root |-> keygroups[g].rootNote,
                low |-> keygroups[g].lowNote, high |-> keygroups[g].highNote,
                velLow |-> layer.lowVelocity, velHigh |-> layer.highVelocity]]]

programZones(program) ==
    [g \in 1..Len(program.keygroups) |->
        [z \in 1..Len(program.keygroups[g].zones) |->
            LET zone == program.keygroups[g].zones[z]
            IN [name |-> zone.sample.name,
                root |-> zone.keyRange.root,
                low |-> zone.keyRange.low, high |-> zone.keyRange.high,
                velLow |-> zone.velocityRange.low, velHigh |-> zone.velocityRange.high]]]

\* the instrument was built by autoMapSamples and all its samples are loaded
InstrumentAutoMapped ==
    /\ instrument # DefaultKeygroups
    /\ \A g \in 1..Len(instrument) : \A l \in 1..Len(instrument[g].velocityLayers) :
          getSample(instrument[g].velocityLayers[l].sampleId) # {}

ReadBackCreateXPM ==
    /\ ret.op = "parseXPMContent"
    /\ ret.of.op = "exportInstrument" /\ ~ret.of.multi
    /\ InstrumentAutoMapped

\* C2: an auto-mapped Instrument written by XPMWriter.createXPM and read back
\* by XPMImporter.parseXPMContent gives the same keygroups and zones, the
\* same key and velocity ranges and the same sample identities.
C2_RoundTrip ==
    ReadBackCreateXPM =>
        /\ "error" \notin DOMAIN ret.program
        /\ ret.program.type = "instrument"
        /\ programZones(ret.program) = instrumentZones(instrument)

\* the velocity layers, group by group, of the three generators
velocityRangesOfTokens(doc, from, to, lowName, highName, element) ==
    LET at == SelectSeq(Indices(doc), LAMBDA j : j >= from /\ j <= to /\ IsElement(doc[j])
                                                 /\ doc[j].n = element)
    IN [i \in 1..Len(at) |-> [low |-> parseInt(getAttribute(doc[at[i]], lowName)),
                              high |-> parseInt(getAttribute(doc[at[i]], highName))]]

\* generateMultiVelocityXPM: the VelocityRange elements of each Keygroup
multiVelocityLayersWritten(doc) ==
    LET groups == querySelectorAll(doc, 0, "Keygroup")
    IN [g \in 1..Len(groups) |->
          velocityRangesOfTokens(doc, groups[g], ElementEnd(doc, groups[g]),
                                 "low", "high", "VelocityRange")]

\* processAndExport: the Zone elements of each root
exporterLayersWritten(doc) ==
    LET zoneAt == querySelectorAll(doc, 0, "Zone")
        roots == { parseInt(getAttribute(doc[zoneAt[i]], "root")) : i \in 1..Len(zoneAt) }
        ofRoot(r) == SelectSeq(zoneAt, LAMBDA j : parseInt(getAttribute(doc[j], "root")) = r)
    IN { [i \in 1..Len(ofRoot(r)) |->
            [low |-> parseInt(getAttribute(doc[ofRoot(r)[i]], "vel_low")),
             high |-> parseInt(getAttribute(doc[ofRoot(r)[i]], "vel_high"))]] : r \in roots }

\* C3: for M >= 1 samples sharing a root the generated velocity layers
\* partition [0,127] exactly and the last layer's high is 127
\* (MultiLayerExporter.assignVelocityRanges, generateMultiVelocityXPM,
\* VelocityLayerManager.generateVelocityLayers).
C3_VelocityLayersPartition ==
    /\ (ret.op = "exportInstrument" /\ ret.multi)
          => \A layers \in exporterLayersWritten(ret.doc) : LayersPartition(layers)
    /\ (ret.op = "createXPM" /\ ret.type = "instrument" /\ ret.detect)
          => \A g \in 1..Len(multiVelocityLayersWritten(ret.doc)) :
                LayersPartition(multiVelocityLayersWritten(ret.doc)[g])
    /\ ret.op = "generateVelocityLayers"
          => \A key \in DOMAIN ret.layers :
                LayersPartition([i \in 1..Len(ret.layers[key]) |->
                                    [low |-> ret.layers[key][i].lowVelocity,
                                     high |-> ret.layers[key][i].highVelocity]])

\* the part of C3 that holds of the code: MultiLayerExporter.assignVelocityRanges
ExporterLayersPartition ==
    (ret.op = "exportInstrument" /\ ret.multi)
        => \A layers \in exporterLayersWritten(ret.doc) : LayersPartition(layers)

\* the resolved roots of the samples the mapper keeps
mappedRoots == { autoMapSamples(allSampleIds)[i].midiNote :
                    i \in 1..Len(autoMapSamples(allSampleIds)) }

\* C4: InstrumentService.autoMapSamples produces exactly one Keygroup per
\* distinct resolved root note of the mapped samples, in ascending root order.
C4_OneKeygroupPerRoot ==
    AutoMapped =>
        /\ Len(instrument) = Cardinality(mappedRoots)
        /\ \A i \in 1..(Len(instrument) - 1) : instrument[i].rootNote < instrument[i+1].rootNote

\* C10: every document the writers produce begins with the declaration header
\* and is well-formed, for every program and every sample name.
C10_WritersWellFormed ==
    ret.op \in WriterOps => (ret.doc[1] = Decl /\ WellFormed(ret.doc))

\* the part of C10 that holds of the code: names without markup characters
PlainName(name) == \A i \in 1..Len(name) : name[i] \notin {"&", "<", "\""}
WritersWellFormedPlainNames ==
    (ret.op \in WriterOps /\ \A i \in 1..Len(samples) : PlainName(samples[i].name))
        => (ret.doc[1] = Decl /\ WellFormed(ret.doc))

(***************************************************************************)
(* XPMUtils.fixXPMContent (xpm-utils): the textual repair pass             *)
(***************************************************************************)
MaxZones == 3

openTags == <<"DrumProgram", "KeygroupProgram", "Pads", "Keygroups", "Pad", "Keygroup", "Zone", "Sample">>

\* new RegExp(`<${tag}[^>]*>`) matches the start tag of every element whose
\* name begins with `tag`, self-closing ones included
NameStartsWith(name, tag) ==
    \/ name = tag
    \/ <<tag, name>> \in { <<"Pad", "Pads">>, <<"Keygroup", "Keygroups">>,
                           <<"Keygroup", "KeygroupProgram">> }

\* xpmContent.replace(/<Sample([^>]*)>/g, ...): a Sample tag with a name and
\* no path gets ` path="name"` placed before its closing ">"; in a
\* self-closing tag that is after the "/", which leaves `<Sample .../ path="x">`
fixSampleTag(t) ==
    IF /\ t.k \in {"open", "empty"}
       /\ t.n = "Sample"
       /\ ~(\E i \in 1..Len(t.a) : t.a[i][1] = "path")
       /\ getAttribute(t, "name") # <<>>
    THEN IF t.k = "open"
         THEN OpenTag("Sample", Append(t.a, <<"path", getAttribute(t, "name")>>))
         ELSE [k |-> "broken", n |-> "Sample", a |-> t.a,
               after |-> <<"path", getAttribute(t, "name")>>]
    ELSE t

\* a start tag the text was cut in has no ">" of its own: `<${tag}[^>]*>`
\* matches it up to the ">" of the tag that follows it
openCount(doc, tag) ==
    Cardinality({ i \in 1..Len(doc) :
                    /\ \/ doc[i].k \in {"open", "empty", "broken"}
                       \/ doc[i].k = "cut" /\ i < Len(doc)
                    /\ NameStartsWith(doc[i].n, tag) })
closeCount(doc, tag) ==
    Cardinality({ i \in 1..Len(doc) : doc[i].k = "close" /\ doc[i].n = tag })

\* openTags.forEach from the k-th tag on
RECURSIVE appendClosingTags(_, _)
appendClosingTags(doc, k) ==
    IF k > Len(openTags) THEN doc
    ELSE LET tag == openTags[k]
             missing == openCount(doc, tag) - closeCount(doc, tag)
         IN appendClosingTags(
                IF missing > 0 THEN doc \o [j \in 1..missing |-> CloseTag(tag)] ELSE doc,
                k + 1)

\* /<Sample([^>]*)>/g on a Sample tag the text was cut in, with a name and
\* no path: the match runs on to the ">" of the closing tag that follows,
\* and ` path="name"` is placed before that ">"
cutSampleWithoutPath(t) ==
    /\ t.k = "cut"
    /\ t.n = "Sample"
    /\ ~(\E i \in 1..Len(t.a) : t.a[i][1] = "path")
    /\ getAttribute(t, "name") # <<>>

\* xpmContent.includes("<?xml")
hasDeclaration(xpmContent) == \E i \in 1..Len(xpmContent) : xpmContent[i].k = "decl"

fixXPMContent(xpmContent) ==
    LET declared == IF hasDeclaration(xpmContent)
                    THEN xpmContent ELSE <<Decl>> \o xpmContent
        withPaths == [i \in 1..Len(declared) |->
                        IF i > 1 /\ declared[i].k = "close" /\ cutSampleWithoutPath(declared[i - 1])
                        THEN [k |-> "brokenClose", n |-> declared[i].n,
                              after |-> <<"path", getAttribute(declared[i - 1], "name")>>]
                        ELSE fixSampleTag(declared[i])]
    IN appendClosingTags(withPaths, 1)

\* the program files the repair pass and the importer are given: a keygroup
\* program of 1..MaxZones zones, some of them left open, with or without the
\* declaration, the enclosing elements and the closing tags at the end, and
\* the same files cut off inside a start tag
SampleTagForms == {"empty", "emptyNoPath", "open", "openNoPath"}
inputSample(form, z) ==
    LET name == <<"s">> \o NumberToString(z)
        attrs == IF form \in {"empty", "open"}
                 THEN << <<"name", name>>, <<"path", <<"/">> \o name>> >>
                 ELSE << <<"name", name>> >>
    IN IF form \in {"empty", "emptyNoPath"} THEN <<EmptyTag("Sample", attrs)>>
       ELSE <<OpenTag("Sample", attrs), CloseTag("Sample")>>

inputZone(form, z, closed) ==
    <<OpenTag("Zone", <<>>)>> \o inputSample(form, z)
        \o <<EmptyTag("KeyRange", << <<"root", NumberToString(59 + z)>> >>)>>
        \o (IF closed THEN <<CloseTag("Zone")>> ELSE <<>>)

inputDocument(zones, closedZones, form, header, wrapped, ended) ==
    (IF header THEN <<Decl>> ELSE <<>>)
    \o (IF wrapped THEN <<OpenTag("KeygroupProgram", << <<"name", <<"P">>>> >>),
                          OpenTag("Keygroups", <<>>)>> ELSE <<>>)
    \o <<OpenTag("Keygroup", << <<"index", <<"0">>>> >>)>>
    \o Concat([z \in 1..zones |-> inputZone(form, z, z <= closedZones)])
    \o (IF ended THEN <<CloseTag("Keygroup")>> ELSE <<>>)
    \o (IF ended /\ wrapped THEN <<CloseTag("Keygroups"), CloseTag("KeygroupProgram")>> ELSE <<>>)

\* a file cut off inside the Sample tag of its last zone
cutDocument(zones, closedZones, header, wrapped) ==
    inputDocument(zones, closedZones, "open", header, wrapped, FALSE)
        \o <<OpenTag("Zone", <<>>), CutTag("Sample", << <<"name", <<"s", "9">>>> >>)>>

InputDocuments ==
    { inputDocument(zones, closedZones, form, header, wrapped, ended) :
        zones \in 1..MaxZones, closedZones \in 0..MaxZones, form \in SampleTagForms,
        header \in BOOLEAN, wrapped \in BOOLEAN, ended \in BOOLEAN }
    \cup { cutDocument(zones, closedZones, header, wrapped) :
        zones \in 1..MaxZones, closedZones \in 0..MaxZones,
        header \in BOOLEAN, wrapped \in BOOLEAN }

\* XPMUtils.fixXPMContent(content); the text it was given is kept in ret.of
FixXPMContent ==
    /\ ret.op # "fixXPMContent"
    /\ content' = fixXPMContent(content)
    /\ ret' = [op |-> "fixXPMContent", of |-> content]
    /\ UNCHANGED <<sequencer, samples, nextId, instrument, data, managerPads, drumKit, args>>

\* XPMUtils.fixXPMContent on text that is already the result of the pass
FixXPMContentAgain ==
    /\ ret.op = "fixXPMContent"
    /\ content' = fixXPMContent(content)
    /\ ret' = [op |-> "fixXPMContentAgain", of |-> content]
    /\ UNCHANGED <<sequencer, samples, nextId, instrument, data, managerPads, drumKit, args>>

\* XPMImporter.parseXPMContent(content)
ParseXPMContent ==
    /\ ret.op \in {"init", "fixXPMContent"}
    /\ ret' = [op |-> "parseXPMContent", repaired |-> ret.op = "fixXPMContent",
               of |-> IF ret.op = "fixXPMContent" THEN ret.of ELSE content,
               program |-> parseXPMContent(content)]
    /\ UNCHANGED <<sequencer, samples, nextId, instrument, content, data, managerPads, drumKit, args>>

InitCodec ==
    /\ samples = <<>>
    /\ nextId = 0
    /\ instrument = DefaultKeygroups
    /\ ret = [op |-> "init"]
    /\ content \in InputDocuments
    /\ data = <<>>
    /\ ServicesConstructed

NextCodec ==
    \/ FixXPMContent
    \/ FixXPMContentAgain
    \/ ParseXPMContent

SpecCodec == InitCodec /\ [][NextCodec]_vars

(***************************************************************************)
(* Properties of the repair pass (SpecCodec).                              *)
(***************************************************************************)

\* the start tags named `tag` that open an element
openedOf(doc, tag) == Cardinality({ i \in 1..Len(doc) : doc[i].k = "open" /\ doc[i].n = tag })
\* the same with the self-closing elements counted as well
startedOf(doc, tag) ==
    Cardinality({ i \in 1..Len(doc) : doc[i].k \in {"open", "empty"} /\ doc[i].n = tag })
closedOf(doc, tag) == closeCount(doc, tag)
Deficit(o, c) == IF o > c THEN o - c ELSE 0

\* the closing tags of `tag` among the tokens the pass put after the input
appendedOf(input, output, tag) ==
    LET kept == Len(input) + (IF \E i \in 1..Len(input) : input[i].k = "decl" THEN 0 ELSE 1)
    IN Cardinality({ i \in (kept + 1)..Len(output) : output[i].k = "close" /\ output[i].n = tag })

KnownNames == { openTags[i] : i \in 1..Len(openTags) }

zoneRecords(program) ==
    IF "keygroups" \notin DOMAIN program THEN 0
    ELSE Len(Concat([g \in 1..Len(program.keygroups) |-> program.keygroups[g].zones]))

\* C9: for every known element name with o opened and c closed occurrences in
\* the input, fixXPMContent appends exactly max(0, o - c) closing tags of that
\* name (whether or not self-closing elements count as opened); a document
\* with 3 opened and 1 closed Zone gains exactly 2 closes and then re-parses
\* to 3 zone records.
C9_RepairAppendsDeficit ==
    /\ ret.op = "fixXPMContent" =>
          \/ \A tag \in KnownNames :
                appendedOf(ret.of, content, tag) = Deficit(openedOf(ret.of, tag), closedOf(ret.of, tag))
          \/ \A tag \in KnownNames :
                appendedOf(ret.of, content, tag) = Deficit(startedOf(ret.of, tag), closedOf(ret.of, tag))
    /\ (/\ ret.op = "parseXPMContent" /\ ret.repaired
        /\ openedOf(ret.of, "Zone") = 3 /\ closedOf(ret.of, "Zone") = 1)
          => /\ closedOf(content, "Zone") = 3
             /\ zoneRecords(ret.program) = 3

\* what the code does for the document of the example: the two Zone closes
\* are appended, and the repaired text never parses to three zone records
RepairedExampleNeverParses ==
    (/\ ret.op = "parseXPMContent" /\ ret.repaired
     /\ openedOf(ret.of, "Zone") = 3 /\ closedOf(ret.of, "Zone") = 1)
        => /\ closedOf(content, "Zone") = 3
           /\ zoneRecords(ret.program) # 3

(***************************************************************************)
(* MIDIConverter (midi-converter): the MIDI decoder                        *)
(***************************************************************************)

\* the value of data[pos] past the end of a Uint8Array
Undefined == -998

\* data[pos], with pos counted from 0
byteAt(bytes, pos) == IF pos >= 0 /\ pos < Len(bytes) THEN bytes[pos + 1] ELSE Undefined

\* ToInt32 of an operand of a bit operator: undefined becomes 0
ToNumber(b) == IF b = Undefined THEN 0 ELSE b

\* value << 7 on 32-bit signed integers: the low 25 bits move up, bit 24
\* becomes the sign
shiftLeft7(value) ==
    LET low == value % 33554432
    IN IF low >= 16777216 THEN (low - 33554432) * 128 ELSE low * 128

\* (b0 << 24) | (b1 << 16) | (b2 << 8) | b3 on 32-bit signed integers
int32OfBytes(b0, b1, b2, b3) ==
    (IF b0 >= 128 THEN b0 - 256 ELSE b0) * 16777216 + b1 * 65536 + b2 * 256 + b3

\* Uint8Array.prototype.slice(start, end)
slice(bytes, start, end) ==
    LET len == Len(bytes)
        rel(x) == IF x < 0 THEN (IF len + x < 0 THEN 0 ELSE len + x)
                  ELSE (IF x > len THEN len ELSE x)
    IN SubSeq(bytes, rel(start) + 1, rel(end))

MThd == <<77, 84, 104, 100>>
MTrk == <<77, 84, 114, 107>>

\* MIDIConverter.readChunk: String.fromCharCode gives the character 0 for undefined
readChunk(bytes, pos) ==
    LET length == int32OfBytes(ToNumber(byteAt(bytes, pos + 4)), ToNumber(byteAt(bytes, pos + 5)),
                               ToNumber(byteAt(bytes, pos + 6)), ToNumber(byteAt(bytes, pos + 7)))
    IN [id |-> [i \in 1..4 |-> ToNumber(byteAt(bytes, pos + i - 1))],
        length |-> length,
        data |-> slice(bytes, pos + 8, pos + 8 + length)]

\* do { byte = data[pos++]; value = (value << 7) | (byte & 0x7f) } while (byte & 0x80)
RECURSIVE readVariableLength(_, _, _)
readVariableLength(bytes, pos, value) ==
    LET byte == ToNumber(byteAt(bytes, pos))
        next == shiftLeft7(value) + (byte % 128)
    IN IF byte >= 128 THEN readVariableLength(bytes, pos + 1, next)
       ELSE [value |-> next, pos |-> pos + 1]

\* MIDIConverter.decodeText: TextDecoder gives U+FFFD for a byte that is not ASCII
decodeText(bytes) == [i \in 1..Len(bytes) |-> IF bytes[i] < 128 THEN bytes[i] ELSE 65533]

NaN == -997

\* the event of a meta event of type metaType
metaEvent(metaType, deltaTime, metaData) ==
    CASE metaType = 1 ->
            [type |-> "meta", subtype |-> "text", deltaTime |-> deltaTime, text |-> decodeText(metaData)]
      [] metaType = 3 ->
            [type |-> "meta", subtype |-> "trackName", deltaTime |-> deltaTime, text |-> decodeText(metaData)]
      [] metaType = 81 ->
            [type |-> "meta", subtype |-> "tempo", deltaTime |-> deltaTime,
             value |-> int32OfBytes(0, ToNumber(byteAt(metaData, 0)),
                                    ToNumber(byteAt(metaData, 1)), ToNumber(byteAt(metaData, 2)))]
      [] metaType = 88 ->
            [type |-> "meta", subtype |-> "timeSignature", deltaTime |-> deltaTime,
             numerator |-> byteAt(metaData, 0),
             denominator |-> IF byteAt(metaData, 1) = Undefined THEN NaN ELSE 2 ^ byteAt(metaData, 1)]
      [] metaType = 89 ->
            [type |-> "meta", subtype |-> "keySignature", deltaTime |-> deltaTime,
             key |-> byteAt(metaData, 0), scale |-> byteAt(metaData, 1)]
      [] metaType = 47 ->
            [type |-> "meta", subtype |-> "endOfTrack", deltaTime |-> deltaTime]
      [] OTHER ->
            [type |-> "meta", subtype |-> "other", metaType |-> metaType,
             deltaTime |-> deltaTime, data |-> metaData]

\* (msb << 7) | lsb for two bytes: bit 7 is set by either operand
bitOr7(msb, lsb) ==
    (msb \div 2) * 256 + (IF msb % 2 = 1 \/ lsb >= 128 THEN 128 ELSE 0) + (lsb % 128)

\* the event decoded for a channel status byte, its data bytes read from pos on
channelEvent(bytes, pos, eventType, deltaTime) ==
    LET kind == (eventType \div 16) * 16
        channel == eventType % 16
        first == byteAt(bytes, pos)
        second == byteAt(bytes, pos + 1)
    IN CASE kind = 128 ->
              [type |-> "noteOff", deltaTime |-> deltaTime, channel |-> channel,
               noteNumber |-> first, velocity |-> second]
         [] kind = 144 ->
              [type |-> IF second = 0 THEN "noteOff" ELSE "noteOn", deltaTime |-> deltaTime,
               channel |-> channel, noteNumber |-> first, velocity |-> second]
         [] kind = 160 ->
              [type |-> "noteAftertouch", deltaTime |-> deltaTime, channel |-> channel,
               noteNumber |-> first, value |-> second]
         [] kind = 176 ->
              [type |-> "controller", deltaTime |-> deltaTime, channel |-> channel,
               controllerType |-> first, value |-> second]
         [] kind = 192 ->
              [type |-> "programChange", deltaTime |-> deltaTime, channel |-> channel,
               value |-> first]
         [] kind = 208 ->
              [type |-> "channelAftertouch", deltaTime |-> deltaTime, channel |-> channel,
               value |-> first]
         [] kind = 224 ->
              [type |-> "pitchBend", deltaTime |-> deltaTime, channel |-> channel,
               value |-> bitOr7(ToNumber(second), ToNumber(first))]

\* the number of data bytes the decoder reads after a channel status byte
channelDataBytes(eventType) == IF (eventType \div 16) * 16 \in {192, 208} THEN 1 ELSE 2

\* MIDIConverter.parseTrackEvents from position pos on: the events, and the
\* console.warn lines of the unknown status bytes it skipped
RECURSIVE parseTrackEventsFrom(_, _, _, _, _)
parseTrackEventsFrom(bytes, pos, runningStatus, events, warnings) ==
    IF pos >= Len(bytes) THEN [events |-> events, warnings |-> warnings]
    ELSE LET delta == readVariableLength(bytes, pos, 0)
             deltaTime == delta.value
             peek == byteAt(bytes, delta.pos)
             running == ToNumber(peek) < 128
             eventType == IF running THEN runningStatus ELSE peek
             at == IF running THEN delta.pos ELSE delta.pos + 1
         IN IF (eventType \div 16) * 16 \in {128, 144, 160, 176, 192, 208, 224}
            THEN parseTrackEventsFrom(bytes, at + channelDataBytes(eventType), eventType,
                     Append(events, channelEvent(bytes, at, eventType, deltaTime)), warnings)
            ELSE IF eventType = 255
            THEN LET metaType == byteAt(bytes, at)
                     length == readVariableLength(bytes, at + 1, 0)
                     metaData == slice(bytes, length.pos, length.pos + length.value)
                 IN parseTrackEventsFrom(bytes, length.pos + length.value, eventType,
                        Append(events, metaEvent(metaType, deltaTime, metaData)), warnings)
            ELSE parseTrackEventsFrom(bytes, at + 2, eventType, events,
                        Append(warnings, eventType))

parseTrackEvents(bytes) == parseTrackEventsFrom(bytes, 0, 0, <<>>, <<>>)

\* activeNotes.set(key, value): a Map keeps the position of a key it has
setActive(activeNotes, key, value) ==
    IF \E i \in 1..Len(activeNotes) : activeNotes[i].key = key
    THEN [i \in 1..Len(activeNotes) |->
             IF activeNotes[i].key = key THEN [key |-> key, value |-> value] ELSE activeNotes[i]]
    ELSE Append(activeNotes, [key |-> key, value |-> value])

\* a decoder that takes the tick of the note off for the duration
noteDurationFromZero(currentTime, startNote) == currentTime

\* the duration of the note a noteOff closes
noteDuration(currentTime, startNote) == currentTime - startNote.time

\* MIDIConverter.extractNotes from the i-th event on
RECURSIVE extractNotesFrom(_, _, _, _, _)
extractNotesFrom(events, i, currentTime, activeNotes, notes) ==
    IF i > Len(events)
    THEN notes \o [k \in 1..Len(activeNotes) |->
                      [note |-> activeNotes[k].value.note,
                       velocity |-> activeNotes[k].value.velocity,
                       time |-> activeNotes[k].value.time,
                       duration |-> 0,
                       channel |-> activeNotes[k].value.channel]]
    ELSE LET event == events[i]
             now == currentTime + event.deltaTime
         IN IF /\ event.type = "noteOn"
               /\ event.noteNumber # Undefined
               /\ event.velocity # Undefined
            THEN extractNotesFrom(events, i + 1, now,
                     setActive(activeNotes, <<event.noteNumber, event.channel>>,
                               [note |-> event.noteNumber, velocity |-> event.velocity,
                                time |-> now, channel |-> event.channel]),
                     notes)
            ELSE IF event.type = "noteOff" /\ event.noteNumber # Undefined
            THEN LET key == <<event.noteNumber, event.channel>>
                     open == SelectSeq(activeNotes, LAMBDA a : a.key = key)
                 IN IF open # <<>>
                    THEN extractNotesFrom(events, i + 1, now,
                             SelectSeq(activeNotes, LAMBDA a : a.key # key),
                             Append(notes, [note |-> open[1].value.note,
                                            velocity |-> open[1].value.velocity,
                                            time |-> open[1].value.time,
                                            duration |-> noteDuration(now, open[1].value),
                                            channel |-> open[1].value.channel]))
                    ELSE extractNotesFrom(events, i + 1, now, activeNotes, notes)
            ELSE extractNotesFrom(events, i + 1, now, activeNotes, notes)

extractNotes(events) == extractNotesFrom(events, 1, 0, <<>>, <<>>)

\* MIDIConverter.extractTrackName: the first non-empty track name, or <<>>
\* for undefined
extractTrackName(events) ==
    LET named == SelectSeq(events, LAMBDA e : /\ e.type = "meta"
                                              /\ e.subtype = "trackName"
                                              /\ e.text # <<>>)
    IN IF named = <<>> THEN <<>> ELSE named[1].text

\* DataView.getUint16(offset) of the chunk data
getUint16(bytes, offset) == bytes[offset + 1] * 256 + bytes[offset + 2]

\* the track loop of parseMIDIData from track i on
RECURSIVE parseTracksFrom(_, _, _, _, _, _)
parseTracksFrom(bytes, pos, i, numTracks, tracks, warnings) ==
    IF i >= numTracks \/ pos >= Len(bytes)
    THEN [kind |-> "tracks", tracks |-> tracks, warnings |-> warnings]
    ELSE LET trackChunk == readChunk(bytes, pos)
             parsed == parseTrackEvents(trackChunk.data)
         IN IF trackChunk.id # MTrk
            THEN [kind |-> "error", name |-> "Error",
                  message |-> "Invalid MIDI file: expected MTrk", warnings |-> warnings]
            ELSE parseTracksFrom(bytes, pos + 8 + trackChunk.length, i + 1, numTracks,
                     Append(tracks, [name |-> extractTrackName(parsed.events),
                                     events |-> parsed.events,
                                     notes |-> extractNotes(parsed.events)]),
                     warnings \o parsed.warnings)

\* MIDIConverter.parseMIDIData: the MIDIData it returns or the error it throws,
\* with the lines written by console.warn
parseMIDIData(bytes) ==
    LET headerChunk == readChunk(bytes, 0)
    IN IF headerChunk.id # MThd
       THEN [kind |-> "error", name |-> "Error",
             message |-> "Invalid MIDI file: missing MThd header", warnings |-> <<>>]
       ELSE IF Len(headerChunk.data) < 6
       THEN [kind |-> "error", name |-> "RangeError",
             message |-> "Offset is outside the bounds of the DataView", warnings |-> <<>>]
       ELSE LET numTracks == getUint16(headerChunk.data, 2)
                parsed == parseTracksFrom(bytes, 8 + headerChunk.length, 0, numTracks, <<>>, <<>>)
            IN IF parsed.kind = "error" THEN parsed
               ELSE [kind |-> "data",
                     header |-> [format |-> getUint16(headerChunk.data, 0),
                                 numTracks |-> numTracks,
                                 ticksPerBeat |-> getUint16(headerChunk.data, 4)],
                     tracks |-> parsed.tracks,
                     warnings |-> parsed.warnings]

(***************************************************************************)
(* The MIDI files given to the decoder                                     *)
(***************************************************************************)
MaxEvents == 3

\* delta times 0 and 480 (two bytes) and the events of a track: note on and
\* off for note 60 on channels 0 and 1, a note on under running status with
\* velocity 0, the status byte 0xF0 the decoder does not know, end of track
TrackEvents ==
    { <<0, 144, 60, 100>>,
      <<131, 96, 144, 60, 100>>,
      <<0, 128, 60, 64>>,
      <<131, 96, 128, 60, 64>>,
      <<131, 96, 60, 0>>,
      <<0, 145, 60, 90>>,
      <<131, 96, 129, 60, 0>>,
      <<0, 240, 1, 2>>,
      <<0, 255, 47, 0>> }

TrackBodies ==
    UNION { { Concat(events) : events \in [1..n -> TrackEvents] } : n \in 0..MaxEvents }

uint32(n) == <<0, 0, n \div 256, n % 256>>
chunk(id, payload) == id \o uint32(Len(payload)) \o payload

\* format 0, one track, 480 ticks per beat
HeaderPayload == <<0, 0, 0, 1, 1, 224>>

midiFile(body) == chunk(MThd, HeaderPayload) \o chunk(MTrk, body)

\* note on (60, 100) at tick 0, note off at tick 480, end of track
MinimalFile == midiFile(<<0, 144, 60, 100, 131, 96, 128, 60, 64, 0, 255, 47, 0>>)

\* files cut short, files whose first chunk is not a header of 6 bytes,
\* files whose second chunk is not a track, and files with a chunk that is
\* not a track after the tracks the header declares
MalformedFiles ==
    { SubSeq(MinimalFile, 1, n) : n \in 0..(Len(MinimalFile) - 1) }
    \cup { chunk(MTrk, <<0, 144, 60, 100>>),
           chunk(MThd, <<>>),
           chunk(MThd, <<0, 0, 0, 1>>),
           MThd \o <<255, 255, 255, 255>> \o HeaderPayload,
           chunk(MThd, HeaderPayload \o <<0>>) \o chunk(MTrk, <<0, 144, 60, 100>>),
           chunk(MThd, <<0, 1, 0, 2, 1, 224>>) \o chunk(MTrk, <<0, 240, 1, 2>>) \o chunk(MThd, <<>>),
           chunk(MThd, <<0, 1, 0, 2, 1, 224>>) \o chunk(MTrk, <<0, 144, 60, 100>>)
               \o chunk(MTrk, <<0, 255, 3, 1, 84, 0, 144, 60, 100, 10, 60, 0>>),
           midiFile(<<0, 144, 60, 100>>) \o chunk(MThd, <<>>),
           chunk(MThd, <<0, 0, 0, 0, 1, 224>>) \o chunk(<<88, 70, 73, 72>>, <<1, 2>>) }

MidiFiles == { midiFile(body) : body \in TrackBodies } \cup MalformedFiles

\* MIDIConverter.parseMIDIFile(file)
ParseMIDIFile ==
    /\ ret.op = "init"
    /\ ret' = [op |-> "parseMIDIFile", result |-> parseMIDIData(data)]
    /\ UNCHANGED <<sequencer, samples, nextId, instrument, content, data, managerPads, drumKit, args>>

InitMidi ==
    /\ samples = <<>>
    /\ nextId = 0
    /\ instrument = DefaultKeygroups
    /\ ret = [op |-> "init"]
    /\ content = <<>>
    /\ data \in MidiFiles
    /\ ServicesConstructed

NextMidi == ParseMIDIFile

SpecMidi == InitMidi /\ [][NextMidi]_vars

(***************************************************************************)
(* Properties of the MIDI decoder (SpecMidi).                              *)
(***************************************************************************)
Decoded == ret.op = "parseMIDIFile"

\* C5: an unrecognized, non-meta status byte met in a track is a hard
\* FormatError; the decoder never skips bytes and goes on with the track.
C5_UnknownStatusIsFormatError ==
    (Decoded /\ \E i \in 1..Len(ret.result.warnings) : ret.result.warnings[i] >= 128)
        => ret.result.kind = "error"

\* the failure the decoder raises itself: throw new Error("Invalid MIDI file: ...")
IsFormatError(result) == result.kind = "error" /\ result.name = "Error"

\* C6: for every input buffer, decoding returns data or fails with the
\* decoder's FormatError; no input makes it fail in any other way.
C6_DataOrFormatError ==
    Decoded => (ret.result.kind = "data" \/ IsFormatError(ret.result))

\* the first chunk is the header chunk and its payload is 6 bytes
FirstChunkIsHeader(bytes) ==
    /\ Len(bytes) >= 14
    /\ SubSeq(bytes, 1, 4) = MThd
    /\ SubSeq(bytes, 5, 8) = uint32(6)

\* C7: a buffer whose first chunk is not the header chunk with a 6-byte
\* payload is rejected with a FormatError.
C7_FirstChunkMustBeHeader ==
    (Decoded /\ ~FirstChunkIsHeader(data)) => IsFormatError(ret.result)

\* the absolute tick of the i-th event of a track
RECURSIVE tickOf(_, _)
tickOf(events, i) == IF i = 0 THEN 0 ELSE tickOf(events, i - 1) + events[i].deltaTime

\* the i-th event is a note on (velocity > 0) or a note off for a note
IsNoteOn(events, i) ==
    events[i].type = "noteOn" /\ events[i].noteNumber # Undefined /\ events[i].velocity > 0
IsNoteOff(events, i) == events[i].type = "noteOff" /\ events[i].noteNumber # Undefined
SameNote(events, i, j) ==
    events[i].noteNumber = events[j].noteNumber /\ events[i].channel = events[j].channel

\* the pairs <<i, j>>: a note on at i followed by its matching note off at j,
\* with no other note on or off for the same note and channel between them
NotePairs(events) ==
    { p \in (1..Len(events)) \X (1..Len(events)) :
        /\ p[1] < p[2]
        /\ IsNoteOn(events, p[1]) /\ IsNoteOff(events, p[2]) /\ SameNote(events, p[1], p[2])
        /\ \A k \in (p[1] + 1)..(p[2] - 1) :
              ~((IsNoteOn(events, k) \/ IsNoteOff(events, k)) /\ SameNote(events, p[1], k)) }

\* the note ons that no later note on or off of the same note follows
OpenNoteOns(events) ==
    { i \in 1..Len(events) :
        /\ IsNoteOn(events, i)
        /\ \A k \in (i + 1)..Len(events) :
              ~((IsNoteOn(events, k) \/ IsNoteOff(events, k)) /\ SameNote(events, i, k)) }

\* the Note Event of a pair
pairNote(events, p) ==
    [note |-> events[p[1]].noteNumber, velocity |-> events[p[1]].velocity,
     time |-> tickOf(events, p[1]),
     duration |-> tickOf(events, p[2]) - tickOf(events, p[1]),
     channel |-> events[p[1]].channel]

\* every pair gives exactly one note: the notes of the pairs come in the order
\* of their note offs, and the only other notes are those still open
PairsGiveNotes(track) ==
    LET pairs == NotePairs(track.events)
        rank(p) == Cardinality({ q \in pairs : q[2] <= p[2] })
    IN /\ Len(track.notes) = Cardinality(pairs) + Cardinality(OpenNoteOns(track.events))
       /\ \A p \in pairs : track.notes[rank(p)] = pairNote(track.events, p)
       /\ \A m \in (Cardinality(pairs) + 1)..Len(track.notes) : track.notes[m].duration = 0

MaxLayers == 3

\* the elements of a set of numbers in ascending order: the order in which
\* for..in visits the integer keys of an object
RECURSIVE ascending(_)
ascending(S) ==
    IF S = {} THEN <<>>
    ELSE LET least == CHOOSE x \in S : \A y \in S : x <= y
         IN <<least>> \o ascending(S \ {least})

\* a velocity range is undefined on either side
MissingVelocity(layer) == layer.lowVelocity = Undefined \/ layer.highVelocity = Undefined

\* layerA.lowVelocity <= layerB.highVelocity && layerB.lowVelocity <= layerA.highVelocity
VelocityOverlap(layerA, layerB) ==
    layerA.lowVelocity <= layerB.highVelocity /\ layerB.lowVelocity <= layerA.highVelocity

\* parseVelocityLayers: the issues of the layers of one root key. The inner
\* loop stops at the first overlap it finds for layer i; the outer loop goes on
rootKeyIssues(rootKey, rootLayers) ==
    IF Len(rootLayers) <= 1 THEN <<>>
    ELSE (IF \E i \in 1..Len(rootLayers) : MissingVelocity(rootLayers[i])
          THEN <<[kind |-> "Missing velocity range", rootKey |-> rootKey]>> ELSE <<>>)
         \o Concat([i \in 1..Len(rootLayers) |->
               IF \E j \in (i + 1)..Len(rootLayers) :
                     /\ ~MissingVelocity(rootLayers[i])
                     /\ ~MissingVelocity(rootLayers[j])
                     /\ VelocityOverlap(rootLayers[i], rootLayers[j])
               THEN <<[kind |-> "Overlapping velocity ranges", rootKey |-> rootKey]>>
               ELSE <<>>])

\* parseVelocityLayers(layers)
parseVelocityLayers(layers) ==
    LET rootKeys == ascending({ layers[i].rootKey : i \in 1..Len(layers) } \ {Undefined})
        issues == Concat([k \in 1..Len(rootKeys) |->
                     rootKeyIssues(rootKeys[k],
                         SelectSeq(layers, LAMBDA layer : layer.rootKey = rootKeys[k]))])
    IN [valid |-> issues = <<>>, issues |-> issues]

\* extractPitchFromFilename of the validator; its noteToMidi is the text of
\* the one of the sample mapper
extractPitchFromFilename(filename) ==
    IF extractNoteFromFilename(filename) = <<>> THEN Null
    ELSE noteToMidi(extractNoteFromFilename(filename))

\* a validator that went on from the report of the run before
reusedReport(previous) ==
    IF previous = <<>> THEN [status |-> "valid", issues |-> <<>>, samplesValidated |-> 0]
    ELSE previous[1]

\* the report validateInstrument starts from; `previous` holds the report of
\* the run before, which the function does not look at
newReport(previous) == [status |-> "valid", issues |-> <<>>, samplesValidated |-> 0]

\* the loop of validateInstrument over the samples from the i-th on
RECURSIVE validateSamplesFrom(_, _, _, _)
validateSamplesFrom(smpls, i, report, layers) ==
    IF i > Len(smpls) THEN [report |-> report, layers |-> layers]
    ELSE LET sample == smpls[i]
             pitchInfo == detectPitch(sample)
             extractedPitch == extractPitchFromFilename(sample.name)
             rootKey == IF pitchInfo # Null THEN pitchInfo
                        ELSE IF extractedPitch # Null /\ extractedPitch # 0 THEN extractedPitch
                        ELSE Undefined
         IN IF ~sample.buffer
            THEN validateSamplesFrom(smpls, i + 1,
                     [report EXCEPT !.status = "invalid",
                                    !.issues = Append(@, [kind |-> "no audio data",
                                                          name |-> sample.name])],
                     layers)
            ELSE validateSamplesFrom(smpls, i + 1,
                     [report EXCEPT !.samplesValidated = @ + 1,
                                    !.issues = IF rootKey = Undefined
                                               THEN Append(@, [kind |-> "Pitch not detected",
                                                               name |-> sample.name])
                                               ELSE @],
                     Append(layers, [sample |-> sample.name, rootKey |-> rootKey,
                                     lowVelocity |-> Undefined, highVelocity |-> Undefined]))

\* validateInstrument(instrumentId): all samples of the registry are examined,
\* whatever the instrument
validateInstrument(smpls, previous) ==
    IF smpls = <<>>
    THEN [newReport(previous) EXCEPT !.status = "invalid",
                                     !.issues = Append(@, [kind |-> "No samples found"])]
    ELSE LET looped == validateSamplesFrom(smpls, 1, newReport(previous), <<>>)
             velocityCheck == parseVelocityLayers(looped.layers)
         IN IF velocityCheck.valid THEN looped.report
            ELSE [looped.report EXCEPT !.status = "invalid",
                                       !.issues = @ \o velocityCheck.issues]

\* handleValidate of the instrument view: the result is kept as the view's
\* validationResult; `previous` holds the result the view showed when the run
\* started, if the last thing done was a validation
ValidateInstrument(instrumentId) ==
    /\ ret' = [op |-> "validateInstrument",
               report |-> validateInstrument(samples,
                              IF ret.op = "validateInstrument" THEN <<ret.report>> ELSE <<>>),
               previous |-> IF ret.op = "validateInstrument" THEN <<ret.report>> ELSE <<>>]
    /\ UNCHANGED <<sequencer, samples, nextId, instrument, content, data, managerPads, drumKit, args>>

NextValidator ==
    \/ \E file \in SampleFiles : LoadSample(file)
    \/ \E instrumentId \in InstrumentIds : ValidateInstrument(instrumentId)

SpecValidator == InitInstrument /\ [][NextValidator]_vars

\* C11: validateInstrument returns status "valid" if and only if the issue
\* list of its report is empty
C11_ValidIffNoIssues ==
    ret.op = "validateInstrument" =>
        (ret.report.status = "valid" <=> ret.report.issues = <<>>)

\* the weaker statement that holds: a report without issues is valid
NoIssuesIsValid ==
    ret.op = "validateInstrument" /\ ret.report.issues = <<>> => ret.report.status = "valid"

CheckedLayers ==
    { [sample |-> <<"x">>, rootKey |-> rootKey,
       lowVelocity |-> range[1], highVelocity |-> range[2]] :
        rootKey \in {60, 62, Undefined},
        range \in {<<0, 70>>, <<60, 127>>, <<0, 127>>, <<71, 127>>, <<Undefined, Undefined>>} }

LayerLists == UNION { [1..n -> CheckedLayers] : n \in 0..MaxLayers }

ParseVelocityLayers ==
    /\ ret.op = "init"
    /\ ret' = [op |-> "parseVelocityLayers", result |-> parseVelocityLayers(args)]
    /\ UNCHANGED <<sequencer, samples, nextId, instrument, content, data, managerPads, drumKit, args>>

InitVelocityCheck ==
    /\ samples = <<>>
    /\ nextId = 0
    /\ instrument = DefaultKeygroups
    /\ ret = [op |-> "init"]
    /\ content = <<>>
    /\ data = <<>>
    /\ managerPads = DefaultPadAssignments
    /\ drumKit = DefaultKitPads
    /\ sequencer = SequencerConstructed
    /\ args \in LayerLists

NextVelocityCheck == ParseVelocityLayers

SpecVelocityCheck == InitVelocityCheck /\ [][NextVelocityCheck]_vars

\* the layers of a root key overlap: two of them have ranges that intersect
RootOverlaps(layers, rootKey) ==
    \E i, j \in 1..Len(layers) :
        /\ i < j
        /\ layers[i].rootKey = rootKey /\ layers[j].rootKey = rootKey
        /\ ~MissingVelocity(layers[i]) /\ ~MissingVelocity(layers[j])
        /\ VelocityOverlap(layers[i], layers[j])

OverlapIssues(issues, rootKey) ==
    Len(SelectSeq(issues, LAMBDA issue :
            issue = [kind |-> "Overlapping velocity ranges", rootKey |-> rootKey]))

TwoLayersOneIssue ==
    /\ ret.op = "parseVelocityLayers"
    /\ Len(args) = 2
    /\ \A i \in 1..2 : args[i].rootKey = 60
    /\ <<args[1].lowVelocity, args[1].highVelocity>> = <<0, 70>>
    /\ <<args[2].lowVelocity, args[2].highVelocity>> = <<60, 127>>
    => OverlapIssues(ret.result.issues, 60) = 1

(***************************************************************************)
(* The services that reference samples: pads, drum kit pads, velocity      *)
(* layers                                                                  *)
(***************************************************************************)
MaxKeygroups == 2
MaxVelocityLayers == 2
MaxServiceSamples == 2

\* the first keygroup or layer added by hand is added at Date.now() = Now;
\* later calls come at later times

\* the files loaded here: two with audio and a detected pitch, 60 and 67
ServiceFiles ==
    { file \in SampleFiles : file.buffer /\ file.name \in {<<"C", "4">>, <<"R", "&", "B">>} }

\* the ids of the samples of the registry
loadedIds == { samples[i].id : i \in 1..Len(samples) }

\* SampleManager.deleteSample(id), called by handleDeleteSample of the sample
\* list: the pad assignments of the SampleManager are cleared, nothing else
DeleteSample(id) ==
    /\ id \in loadedIds
    /\ managerPads' = [padId \in DOMAIN managerPads |->
                          IF managerPads[padId] = id THEN Null ELSE managerPads[padId]]
    /\ samples' = SelectSeq(samples, LAMBDA sample : sample.id # id)
    /\ ret' = [op |-> "deleteSample", id |-> id]
    /\ UNCHANGED <<sequencer, nextId, instrument, content, data, drumKit, args>>

\* SampleManager.assignSampleToPad(padId, sampleId)
AssignSampleToPad(padId, sampleId) ==
    /\ sampleId \in loadedIds
    /\ managerPads' = IF padId \in DOMAIN managerPads
                      THEN [managerPads EXCEPT ![padId] = sampleId]
                      ELSE managerPads
    /\ ret' = [op |-> "assignSampleToPad", padId |-> padId]
    /\ UNCHANGED <<sequencer, samples, nextId, instrument, content, data, drumKit, args>>

\* the pad of the default kit at an index of kit.pads: bank A holds the first 16
kitPad(padIndex) == <<"A", padIndex>>

\* DrumKitService.autoAssignSamples(kitId, sampleIds), called by handleAutoAssign
\* with the ids of all loaded samples
AutoAssignSamples ==
    /\ drumKit' = [pad \in DOMAIN drumKit \cup { kitPad(k - 1) : k \in 1..Len(samples) } |->
                      IF \E k \in 1..Len(samples) : pad = kitPad(k - 1)
                      THEN samples[CHOOSE k \in 1..Len(samples) : pad = kitPad(k - 1)].id
                      ELSE drumKit[pad]]
    /\ ret' = [op |-> "autoAssignSamples", count |-> Len(samples)]
    /\ UNCHANGED <<sequencer, samples, nextId, instrument, content, data, managerPads, args>>

\* DrumKitService.assignSampleToPad(kitId, padId, sampleId)
AssignSampleToKitPad(pad, sampleId) ==
    /\ sampleId \in loadedIds
    /\ drumKit' = [p \in DOMAIN drumKit \cup {pad} |-> IF p = pad THEN sampleId ELSE drumKit[p]]
    /\ ret' = [op |-> "assignSampleToKitPad", pad |-> pad]
    /\ UNCHANGED <<sequencer, samples, nextId, instrument, content, data, managerPads, args>>

\* the first index of a sequence whose element has the id, 0 when none has:
\* Array.prototype.find
findIndex(seq, id) ==
    IF \E i \in 1..Len(seq) : seq[i].id = id
    THEN CHOOSE i \in 1..Len(seq) : seq[i].id = id /\ \A j \in 1..(i - 1) : seq[j].id # id
    ELSE 0

\* InstrumentService.assignSampleToKeygroup on the keygroups of the instrument
assignSampleToKeygroup(keygroups, keygroupId, velocityLayerId, sampleId) ==
    LET k == findIndex(keygroups, keygroupId)
        l == findIndex(keygroups[k].velocityLayers, velocityLayerId)
        found == getSample(sampleId)
        sample == CHOOSE x \in found : TRUE
        pitched == found # {} /\ sample.buffer /\ detectPitch(sample) # Null
    IN [keygroups EXCEPT ![k].velocityLayers[l].sampleId = sampleId,
                         ![k].rootNote = IF pitched THEN detectPitch(sample) ELSE @]

AssignSampleToKeygroup(instrumentId, keygroupId, velocityLayerId, sampleId) ==
    /\ sampleId \in loadedIds
    /\ IF /\ instrumentId = "instrument_0"
          /\ findIndex(instrument, keygroupId) # 0
          /\ findIndex(instrument[findIndex(instrument, keygroupId)].velocityLayers,
                       velocityLayerId) # 0
       THEN /\ instrument' = assignSampleToKeygroup(instrument, keygroupId,
                                                    velocityLayerId, sampleId)
            /\ ret' = [op |-> "assignSampleToKeygroup", result |-> TRUE]
       ELSE /\ ret' = [op |-> "assignSampleToKeygroup", result |-> FALSE]
            /\ UNCHANGED instrument
    /\ UNCHANGED <<sequencer, samples, nextId, content, data, managerPads, drumKit, args>>

\* the ids of the keygroups and of the velocity layers of the instrument
keygroupIds == { instrument[k].id : k \in 1..Len(instrument) }
velocityLayerIds ==
    UNION { { instrument[k].velocityLayers[l].id : l \in 1..Len(instrument[k].velocityLayers) } :
              k \in 1..Len(instrument) }

\* InstrumentService.addKeygroup(instrumentId, lowNote, highNote, rootNote),
\* called by handleAddKeygroup with the three numbers of the form
AddKeygroup(instrumentId, lowNote, highNote, rootNote) ==
    /\ Len(instrument) < MaxKeygroups
    /\ IF instrumentId = "instrument_0"
       THEN /\ instrument' = Append(instrument,
                    [id |-> <<"keygroup", Now + Len(instrument)>>,
                     lowNote |-> lowNote, highNote |-> highNote, rootNote |-> rootNote,
                     velocityLayers |-> << [id |-> <<"velocity", Now>>,
                                            lowVelocity |-> 0, highVelocity |-> 127,
                                            sampleId |-> Null] >>])
            /\ ret' = [op |-> "addKeygroup", result |-> <<"keygroup", Now + Len(instrument)>>]
       ELSE /\ ret' = [op |-> "addKeygroup", result |-> Null]
            /\ UNCHANGED instrument
    /\ UNCHANGED <<sequencer, samples, nextId, content, data, managerPads, drumKit, args>>

\* InstrumentService.addVelocityLayer(instrumentId, keygroupId, lowVelocity,
\* highVelocity), called by handleAddVelocityLayer for the selected keygroup
AddVelocityLayer(instrumentId, keygroupId, lowVelocity, highVelocity) ==
    LET k == findIndex(instrument, keygroupId)
    IN /\ k # 0 => Len(instrument[k].velocityLayers) < MaxVelocityLayers
       /\ IF instrumentId = "instrument_0" /\ k # 0
          THEN /\ instrument' = [instrument EXCEPT ![k].velocityLayers = Append(@,
                       [id |-> <<"velocity", Now + Len(@)>>, lowVelocity |-> lowVelocity,
                        highVelocity |-> highVelocity, sampleId |-> Null])]
               /\ ret' = [op |-> "addVelocityLayer", result |-> k]
          ELSE /\ ret' = [op |-> "addVelocityLayer", result |-> Null]
               /\ UNCHANGED instrument
       /\ UNCHANGED <<sequencer, samples, nextId, content, data, managerPads, drumKit, args>>

\* the pads of the SampleManager and of the kit that the calls name
PadIds == {0}
KitPads == {<<"A", 0>>}

NextPads ==
    \/ \E file \in ServiceFiles : nextId < MaxServiceSamples /\ LoadSample(file)
    \/ \E id \in SampleIds : DeleteSample(id)
    \/ \E padId \in PadIds, sampleId \in SampleIds : AssignSampleToPad(padId, sampleId)
    \/ AutoAssignSamples
    \/ \E pad \in KitPads, sampleId \in SampleIds : AssignSampleToKitPad(pad, sampleId)
    \/ \E instrumentId \in InstrumentIds : AutoMapSamples(instrumentId)
    \/ \E instrumentId \in InstrumentIds, keygroupId \in keygroupIds,
          velocityLayerId \in velocityLayerIds, sampleId \in SampleIds :
            AssignSampleToKeygroup(instrumentId, keygroupId, velocityLayerId, sampleId)

SpecPads == InitInstrument /\ [][NextPads]_vars

\* the sample ids that the pads, the kit pads and the velocity layers hold
padReferences == { managerPads[padId] : padId \in DOMAIN managerPads } \ {Null}
kitReferences == { drumKit[pad] : pad \in DOMAIN drumKit } \ {Null}
layerReferences ==
    UNION { { instrument[k].velocityLayers[l].sampleId :
                l \in 1..Len(instrument[k].velocityLayers) } :
              k \in 1..Len(instrument) } \ {Null}

\* C13: no pad, kit pad or velocity layer references a sample that was
\* deleted from the registry (ids are never given twice, so a referenced id
\* that is not in the registry is the id of a deleted sample)
C13_NoDanglingReference ==
    padReferences \cup kitReferences \cup layerReferences \subseteq loadedIds

\* what deleteSample does clear: the pad assignments of the SampleManager
ManagerPadsCleared == padReferences \subseteq loadedIds

\* the low and high notes and the velocities typed into the forms; the root
\* note is left at the 60 the form starts with
NoteInputs == {20, 100}
VelocityInputs == {0, 127}

NextKeygroups ==
    \/ \E file \in ServiceFiles : nextId < MaxServiceSamples /\ LoadSample(file)
    \/ \E instrumentId \in InstrumentIds : AutoMapSamples(instrumentId)
    \/ \E instrumentId \in InstrumentIds, lowNote, highNote \in NoteInputs, rootNote \in {60} :
            AddKeygroup(instrumentId, lowNote, highNote, rootNote)
    \/ \E instrumentId \in InstrumentIds, keygroupId \in keygroupIds,
          lowVelocity, highVelocity \in VelocityInputs :
            AddVelocityLayer(instrumentId, keygroupId, lowVelocity, highVelocity)
    \/ \E instrumentId \in InstrumentIds, keygroupId \in keygroupIds,
          velocityLayerId \in velocityLayerIds, sampleId \in SampleIds :
            AssignSampleToKeygroup(instrumentId, keygroupId, velocityLayerId, sampleId)

SpecKeygroups == InitInstrument /\ [][NextKeygroups]_vars

KeygroupOrdered(keygroup) ==
    keygroup.lowNote <= keygroup.rootNote /\ keygroup.rootNote <= keygroup.highNote

LayersOrdered(keygroup) ==
    \A l \in 1..Len(keygroup.velocityLayers) :
        keygroup.velocityLayers[l].lowVelocity <= keygroup.velocityLayers[l].highVelocity

\* C14: every keygroup of the instrument has low <= root <= high and every
\* velocity layer has low <= high
C14_KeygroupsOrdered ==
    \A k \in 1..Len(instrument) :
        KeygroupOrdered(instrument[k]) /\ LayersOrdered(instrument[k])

(***************************************************************************)
(* The projections of decoded MIDI data (MIDIConverter)                    *)
(***************************************************************************)
MaxPatternEvents == 3

\* Math.round(n / d) for n >= 0, d > 0
roundDiv(n, d) == (2 * n + d) \div (2 * d)

\* Math.ceil(n / d) for n >= 0; a division by 0 gives Infinity or NaN
ceilDiv(n, d) == IF d = 0 THEN NaN ELSE (n + d - 1) \div d

\* the events of all tracks, in track and event order
allEvents(midiData) == Concat([t \in 1..Len(midiData.tracks) |-> midiData.tracks[t].events])

\* the notes of all tracks, in track order
allNotes(midiData) == Concat([t \in 1..Len(midiData.tracks) |-> midiData.tracks[t].notes])

\* the conditions under which the loops take a meta event
IsTempo(event) == event.type = "meta" /\ event.subtype = "tempo" /\ event.value # 0
IsTimeSignature(event) ==
    /\ event.type = "meta" /\ event.subtype = "timeSignature"
    /\ event.numerator \notin {Undefined, 0}
    /\ event.denominator \notin {NaN, 0}
IsTrackName(event) == event.type = "meta" /\ event.subtype = "trackName" /\ event.text # <<>>

\* the loop over the events that both projections run: every matching event
\* assigns, so the value left is that of the last one
RECURSIVE metaFrom(_, _, _)
metaFrom(events, i, meta) ==
    IF i > Len(events) THEN meta
    ELSE LET event == events[i]
             withTempo == IF IsTempo(event)
                          THEN [meta EXCEPT !.bpm = roundDiv(60000000, event.value)]
                          ELSE meta
             withSignature == IF IsTimeSignature(event)
                              THEN [withTempo EXCEPT !.timeSignature =
                                       [numerator |-> event.numerator,
                                        denominator |-> event.denominator]]
                              ELSE withTempo
             withName == IF IsTrackName(event)
                         THEN [withSignature EXCEPT !.trackName = event.text]
                         ELSE withSignature
         IN metaFrom(events, i + 1, withName)

extractMeta(midiData) ==
    metaFrom(allEvents(midiData), 1,
             [bpm |-> 120, timeSignature |-> [numerator |-> 4, denominator |-> 4],
              trackName |-> <<>>])

\* MIDIConverter.convertToProgression; the name is <<>> for undefined
convertToProgression(midiData) ==
    LET meta == extractMeta(midiData)
    IN [notes |-> SortBy(allNotes(midiData), "time"),
        meta |-> [source |-> "midi", bpm |-> meta.bpm,
                  timeSignature |-> meta.timeSignature, name |-> meta.trackName]]

\* MIDIController.setupDefaultMappings: the notes 36..51 on the pads 0..15
padMappings == [note \in 36..51 |-> note - 36]

\* padMapping ? padMapping.get(note.note) || note.note : note.channel
trackIdOf(note, usePadMapping) ==
    IF usePadMapping
    THEN IF note.note \in DOMAIN padMappings /\ padMappings[note.note] # 0
         THEN padMappings[note.note]
         ELSE note.note
    ELSE note.channel

\* the keys of notesByTrack in the order in which they were first set
RECURSIVE trackIdsFrom(_, _, _, _)
trackIdsFrom(notes, i, usePadMapping, ids) ==
    IF i > Len(notes) THEN ids
    ELSE LET trackId == trackIdOf(notes[i], usePadMapping)
         IN trackIdsFrom(notes, i + 1, usePadMapping,
                IF \E k \in 1..Len(ids) : ids[k] = trackId THEN ids ELSE Append(ids, trackId))

maxTickOf(notes) ==
    IF notes = <<>> THEN 0
    ELSE LET ends == { notes[i].time + notes[i].duration : i \in 1..Len(notes) }
             largest == CHOOSE x \in ends : \A y \in ends : y <= x
         IN IF largest > 0 THEN largest ELSE 0

\* MIDIConverter.convertToMPCPattern(midiData, padMapping); the name is a text
\* of byte values, "Imported Pattern" when there is no track name
convertToMPCPattern(midiData, usePadMapping) ==
    LET meta == extractMeta(midiData)
        notes == allNotes(midiData)
        trackIds == trackIdsFrom(notes, 1, usePadMapping, <<>>)
        ticksPerBar == midiData.header.ticksPerBeat * meta.timeSignature.numerator
    IN [name |-> IF meta.trackName # <<>> THEN meta.trackName ELSE <<"Imported Pattern">>,
        bpm |-> meta.bpm,
        swing |-> 0,
        bars |-> ceilDiv(maxTickOf(notes), ticksPerBar),
        timeSig |-> meta.timeSignature,
        tracks |-> [k \in 1..Len(trackIds) |->
            LET mine == SelectSeq(notes, LAMBDA note :
                            trackIdOf(note, usePadMapping) = trackIds[k])
            IN [id |-> <<"track", trackIds[k]>>, padId |-> trackIds[k],
                events |-> [e \in 1..Len(mine) |->
                    [tick |-> mine[e].time, duration |-> mine[e].duration,
                     velocity |-> mine[e].velocity, probability |-> 1]]]]]

\* the events of the tracks given to the projections: tempo 500000 and
\* 1000000, time signatures 3/4 and 6/8, track names "A" and "B", note on for
\* the notes 36 (pad 0), 37 (pad 1) and 60 (no pad), and note off for 36
PatternEvents ==
    { <<0, 255, 81, 3, 7, 161, 32>>,
      <<0, 255, 81, 3, 15, 66, 64>>,
      <<0, 255, 88, 4, 3, 2, 24, 8>>,
      <<0, 255, 88, 4, 6, 3, 24, 8>>,
      <<0, 255, 3, 1, 65>>,
      <<0, 255, 3, 1, 66>>,
      <<0, 144, 36, 100>>,
      <<0, 145, 37, 90>>,
      <<0, 145, 60, 80>>,
      <<131, 96, 128, 36, 64>> }

\* files of one track of up to MaxPatternEvents events and files of two
\* tracks of one event each
PatternFiles ==
    { midiFile(Concat(events)) :
        events \in UNION { [1..n -> PatternEvents] : n \in 0..MaxPatternEvents } }
    \cup { chunk(MThd, <<0, 1, 0, 2, 1, 224>>) \o chunk(MTrk, first) \o chunk(MTrk, second) :
             first \in PatternEvents, second \in PatternEvents }

\* handleParseMIDI of the converter view: the decoded data is kept as the
\* view's midiData
HandleParseMIDI ==
    LET result == parseMIDIData(data)
    IN /\ ret.op = "init"
       /\ ret' = [op |-> "parseMIDIFile", result |-> result]
       /\ args' = IF result.kind = "data" THEN <<result>> ELSE args
       /\ UNCHANGED <<sequencer, samples, nextId, instrument, content, data, managerPads, drumKit>>

\* handleConvertToProgression
HandleConvertToProgression ==
    /\ args # <<>>
    /\ ret' = [op |-> "convertToProgression", result |-> convertToProgression(args[1])]
    /\ UNCHANGED <<sequencer, samples, nextId, instrument, content, data, managerPads, drumKit, args>>

\* handleConvertToMPCPattern: the mapping of the MIDIController when pad
\* mapping is switched on, none otherwise
HandleConvertToMPCPattern(usePadMapping) ==
    /\ args # <<>>
    /\ ret' = [op |-> "convertToMPCPattern", usePadMapping |-> usePadMapping,
               result |-> convertToMPCPattern(args[1], usePadMapping)]
    /\ UNCHANGED <<sequencer, samples, nextId, instrument, content, data, managerPads, drumKit, args>>

InitPattern ==
    /\ samples = <<>>
    /\ nextId = 0
    /\ instrument = DefaultKeygroups
    /\ ret = [op |-> "init"]
    /\ content = <<>>
    /\ data \in PatternFiles
    /\ ServicesConstructed

NextPattern ==
    \/ HandleParseMIDI
    \/ HandleConvertToProgression
    \/ \E usePadMapping \in BOOLEAN : HandleConvertToMPCPattern(usePadMapping)

SpecPattern == InitPattern /\ [][NextPattern]_vars

\* the metadata of the projection that was made last
projectedMeta ==
    IF ret.op = "convertToProgression"
    THEN [bpm |-> ret.result.meta.bpm, timeSignature |-> ret.result.meta.timeSignature,
          name |-> ret.result.meta.name]
    ELSE [bpm |-> ret.result.bpm, timeSignature |-> ret.result.timeSig,
          name |-> ret.result.name]

Projected == ret.op \in {"convertToProgression", "convertToMPCPattern"}

\* the metadata the first matching meta events give
FirstMetaGiven(meta) ==
    LET events == allEvents(args[1])
        tempos == SelectSeq(events, IsTempo)
        signatures == SelectSeq(events, IsTimeSignature)
        names == SelectSeq(events, IsTrackName)
    IN /\ meta.bpm = IF tempos = <<>> THEN 120 ELSE roundDiv(60000000, tempos[1].value)
       /\ meta.timeSignature =
              IF signatures = <<>> THEN [numerator |-> 4, denominator |-> 4]
              ELSE [numerator |-> signatures[1].numerator,
                    denominator |-> signatures[1].denominator]
       /\ names # <<>> => meta.name = names[1].text

\* C15: in both projections bpm, time signature and name are those of the
\* first matching meta event in track and event order, 120 and 4/4 when there
\* is none
C15_FirstMetaEvent == Projected => FirstMetaGiven(projectedMeta)

\* each kind of meta event occurs at most once in the file
MetaEventsUnique ==
    /\ Len(SelectSeq(allEvents(args[1]), IsTempo)) <= 1
    /\ Len(SelectSeq(allEvents(args[1]), IsTimeSignature)) <= 1
    /\ Len(SelectSeq(allEvents(args[1]), IsTrackName)) <= 1

\* what holds: the metadata of a file in which no kind of meta event is repeated
FirstMetaWhenUnique == Projected /\ MetaEventsUnique => FirstMetaGiven(projectedMeta)

\* the note is an event of the track of the pad
InTrackOf(note, padId) ==
    \E k \in 1..Len(ret.result.tracks) :
        /\ ret.result.tracks[k].padId = padId
        /\ \E e \in 1..Len(ret.result.tracks[k].events) :
              ret.result.tracks[k].events[e] =
                  [tick |-> note.time, duration |-> note.duration,
                   velocity |-> note.velocity, probability |-> 1]

\* C16: with a mapping every note whose number is in the mapping is in the
\* track of its mapped pad, pad 0 included; without one every note is in the
\* track of its channel
C16_NotesGroupedByPad ==
    ret.op = "convertToMPCPattern" =>
        \A i \in 1..Len(allNotes(args[1])) :
            LET note == allNotes(args[1])[i]
            IN IF ret.usePadMapping
               THEN note.note \in DOMAIN padMappings => InTrackOf(note, padMappings[note.note])
               ELSE InTrackOf(note, note.channel)

\* what holds: the same for the pads other than pad 0
NotesGroupedByPadButZero ==
    ret.op = "convertToMPCPattern" =>
        \A i \in 1..Len(allNotes(args[1])) :
            LET note == allNotes(args[1])[i]
            IN IF ret.usePadMapping
               THEN note.note \in DOMAIN padMappings /\ padMappings[note.note] # 0
                        => InTrackOf(note, padMappings[note.note])
               ELSE InTrackOf(note, note.channel)

(***************************************************************************)
(* Root note and velocity hint of one sample                               *)
(***************************************************************************)
\* the names of the sample: with and without a note name, with the keywords
\* soft, med and hard, with none, and with a number after "vel" or "v"
HintNames ==
    { <<"C", "4">>,
      <<"D", "b", "4">>,
      <<"x">>,
      <<"s", "o", "f", "t", "C", "4">>,
      <<"m", "e", "d">>,
      <<"h", "a", "r", "d">>,
      <<"k", "i", "c", "k">>,
      <<"v", "e", "l", "6", "4", "s", "o", "f", "t">>,
      <<"v", "2", "0", "0", "h", "a", "r", "d">>,
      <<"h", "a", "r", "d", "v", "5">> }

\* the registry after one file was loaded: any of the names, with or without
\* audio, the pitch detector finding nothing, 60 or 61
HintSamples ==
    { [id |-> 1, name |-> name, buffer |-> buffer, pitch |-> pitch] :
        name \in HintNames, buffer \in BOOLEAN, pitch \in {Null, 60, 61} }

InitHints ==
    /\ \E sample \in HintSamples :
          /\ samples = <<sample>>
          /\ sample.buffer \/ sample.pitch = Null
    /\ nextId = 1
    /\ instrument = DefaultKeygroups
    /\ ret = [op |-> "init"]
    /\ content = <<>>
    /\ data = <<>>
    /\ ServicesConstructed

\* autoMapSamples(sampleIds) of the sample mapper for the loaded sample
MapSample ==
    /\ ret' = [op |-> "autoMapSamples", result |-> autoMapSamples(allSampleIds)]
    /\ UNCHANGED <<sequencer, samples, nextId, instrument, content, data, managerPads, drumKit, args>>

\* MultiLayerExporter.extractSampleInfo(sample), which processAndExport calls
\* for a sample with audio
ExtractSampleInfo ==
    /\ samples[1].buffer
    /\ ret' = [op |-> "extractSampleInfo", result |-> extractSampleInfo(samples[1])]
    /\ UNCHANGED <<sequencer, samples, nextId, instrument, content, data, managerPads, drumKit, args>>

\* extractVelocityFromFilename(sample.name) of the MultiLayerExporter and of
\* the VelocityLayerManager
ExtractVelocityFromFilename(service) ==
    /\ ret' = [op |-> "extractVelocityFromFilename", service |-> service,
               result |-> IF service = "MultiLayerExporter"
                          THEN exporterVelocityFromFilename(samples[1].name)
                          ELSE layerVelocityFromFilename(samples[1].name)]
    /\ UNCHANGED <<sequencer, samples, nextId, instrument, content, data, managerPads, drumKit, args>>

NextHints ==
    \/ MapSample
    \/ ExtractSampleInfo
    \/ \E service \in {"MultiLayerExporter", "VelocityLayerManager"} :
          ExtractVelocityFromFilename(service)

SpecHints == InitHints /\ [][NextHints]_vars

\* the root note the resolution order gives: the note name of the sample's
\* name, else the pitch estimate, else middle C
preferredRoot(sample) ==
    IF extractNoteFromFilename(sample.name) # <<>>
    THEN noteToMidi(extractNoteFromFilename(sample.name))
    ELSE IF detectPitch(sample) # Null THEN detectPitch(sample)
    ELSE 60

\* C17: the root note of a sample with audio is the note name parsed from its
\* name when there is one, else the pitch estimate, else middle C (60)
C17_NamePreferredOverPitch ==
    samples[1].buffer =>
        /\ ret.op = "autoMapSamples" =>
              ret.result = << [id |-> 1, midiNote |-> preferredRoot(samples[1])] >>
        /\ ret.op = "extractSampleInfo" => ret.result.pitch = preferredRoot(samples[1])

\* what holds: the sample mapper takes the note name of the name when there is
\* one, and the pitch estimate when there is none
MapperPrefersName ==
    /\ samples[1].buffer
    /\ ret.op = "autoMapSamples"
    /\ extractNoteFromFilename(samples[1].name) # <<>> \/ detectPitch(samples[1]) # Null
    => ret.result = << [id |-> 1, midiNote |-> preferredRoot(samples[1])] >>

\* the velocity hint of a name: the number after "vel" or "v" when it is in
\* 0..127, else 40 for soft, 80 for med, 120 for hard, else 90
expectedHint(filename) ==
    LET name == toLowerCase(filename)
        atVel == PrefixDigitsAt(name, <<"v", "e", "l">>)
        atV == PrefixDigitsAt(name, <<"v">>)
        token == IF atVel > 0 THEN DigitsValue(name, atVel + 3, 0)
                 ELSE IF atV > 0 THEN DigitsValue(name, atV + 1, 0)
                 ELSE Null
    IN IF token # Null /\ token <= 127 THEN token
       ELSE IF includes(name, <<"s", "o", "f", "t">>) THEN 40
       ELSE IF includes(name, <<"m", "e", "d">>) THEN 80
       ELSE IF includes(name, <<"h", "a", "r", "d">>) THEN 120
       ELSE 90

\* C20: the velocity hint of a sample name is 40 for "soft", 80 for "med", 120
\* for "hard" and 90 without a keyword, and a numeric velocity token in 0..127
\* takes precedence over the keywords
C20_VelocityHint ==
    ret.op = "extractVelocityFromFilename" => ret.result = expectedHint(samples[1].name)

\* what holds for the MultiLayerExporter: the three keywords
ExporterKeywordHints ==
    ret.op = "extractVelocityFromFilename" /\ ret.service = "MultiLayerExporter" =>
        LET name == toLowerCase(samples[1].name)
        IN /\ includes(name, <<"s", "o", "f", "t">>) => ret.result = 40
           /\ includes(name, <<"m", "e", "d">>) => ret.result = 80
           /\ includes(name, <<"h", "a", "r", "d">>) => ret.result = 120

\* what holds for the VelocityLayerManager: the numeric token in 0..127
LayerNumericHint ==
    ret.op = "extractVelocityFromFilename" /\ ret.service = "VelocityLayerManager" =>
        LET name == toLowerCase(samples[1].name)
            atVel == PrefixDigitsAt(name, <<"v", "e", "l">>)
        IN atVel > 0 /\ DigitsValue(name, atVel + 3, 0) <= 127
               => ret.result = DigitsValue(name, atVel + 3, 0)

(***************************************************************************)
(* The velocity range of a root with one sample (SpecInstrument)           *)
(***************************************************************************)
FullRange(layers) == Len(layers) = 1 => layers[1] = [low |-> 0, high |-> 127]

\* C18: when exactly one sample occupies a root note, its generated velocity
\* range is exactly [0,127], whatever velocity hint its name carries
\* (MultiLayerExporter.assignVelocityRanges, generateMultiVelocityXPM)
C18_SingleSampleFullRange ==
    /\ (ret.op = "exportInstrument" /\ ret.multi)
          => \A layers \in exporterLayersWritten(ret.doc) : FullRange(layers)
    /\ (ret.op = "createXPM" /\ ret.type = "instrument" /\ ret.detect)
          => \A g \in 1..Len(multiVelocityLayersWritten(ret.doc)) :
                FullRange(multiVelocityLayersWritten(ret.doc)[g])

\* the part of C18 that holds of the code: MultiLayerExporter.assignVelocityRanges
ExporterSingleSampleFullRange ==
    (ret.op = "exportInstrument" /\ ret.multi)
        => \A layers \in exporterLayersWritten(ret.doc) : FullRange(layers)

(***************************************************************************)
(* The loop of parseTrackEvents, one iteration at a time                   *)
(***************************************************************************)
MaxTrackTokens == 3

\* a decoder that takes the byte after the delta time for a status byte
\* whatever its top bit is
afterStatusByte(running, pos) == pos + 1

\* the position of the first data byte of an event whose delta time ends
\* before pos: under running status the byte at pos itself, else the next one
firstDataAt(running, pos) == IF running THEN pos ELSE pos + 1

\* one iteration of the while loop of parseTrackEvents, begun at pos: the
\* position and the running status it leaves, and the event it pushed (<<>>
\* when it pushed none)
parseTrackStep(bytes, pos, runningStatus) ==
    LET delta == readVariableLength(bytes, pos, 0)
        peek == byteAt(bytes, delta.pos)
        running == ToNumber(peek) < 128
        eventType == IF running THEN runningStatus ELSE peek
        at == firstDataAt(running, delta.pos)
    IN IF (eventType \div 16) * 16 \in {128, 144, 160, 176, 192, 208, 224}
       THEN [pos |-> at + channelDataBytes(eventType), runningStatus |-> eventType,
             consumedStatus |-> at # delta.pos,
             event |-> <<channelEvent(bytes, at, eventType, delta.value)>>]
       ELSE IF eventType = 255
       THEN LET metaType == byteAt(bytes, at)
                length == readVariableLength(bytes, at + 1, 0)
                metaData == slice(bytes, length.pos, length.pos + length.value)
            IN [pos |-> length.pos + length.value, runningStatus |-> eventType,
                consumedStatus |-> at # delta.pos,
                event |-> <<metaEvent(metaType, delta.value, metaData)>>]
       ELSE [pos |-> at + 2, runningStatus |-> eventType, consumedStatus |-> at # delta.pos,
             event |-> <<>>]

\* the pieces the tracks are put together from: a delta time, a data byte, a
\* status byte alone, a whole note on, the head of a meta event, the length
\* fields FF FF FF FF 78 (-8 after the 32-bit shift), FF FF FF FF 7F (-1) and
\* 64 (more than is left), an end of track, the status byte 0xF0
TrackTokens ==
    { <<0>>,
      <<60>>,
      <<144>>,
      <<0, 144, 60, 100>>,
      <<0, 255, 1>>,
      <<255, 255, 255, 255, 120>>,
      <<255, 255, 255, 255, 127>>,
      <<64>>,
      <<0, 255, 47, 0>>,
      <<0, 240>> }

TrackData ==
    { Concat(tokens) : tokens \in UNION { [1..n -> TrackTokens] : n \in 0..MaxTrackTokens } }

\* parseTrackEvents(data) is entered
BeginParseTrackEvents ==
    /\ ret.op = "init"
    /\ ret' = [op |-> "parseTrackEvents", start |-> 0, pos |-> 0, runningStatus |-> 0,
               previousStatus |-> 0, consumedStatus |-> FALSE, event |-> <<>>,
               iterations |-> 0]
    /\ UNCHANGED <<sequencer, samples, nextId, instrument, content, data, managerPads, drumKit, args>>

\* one iteration of its loop; the number of iterations is counted up to 1
IterateParseTrackEvents ==
    /\ ret.op = "parseTrackEvents"
    /\ ret.pos < Len(data)
    /\ LET step == parseTrackStep(data, ret.pos, ret.runningStatus)
       IN ret' = [op |-> "parseTrackEvents", start |-> ret.pos, pos |-> step.pos,
                  runningStatus |-> step.runningStatus,
                  previousStatus |-> ret.runningStatus,
                  consumedStatus |-> step.consumedStatus, event |-> step.event,
                  iterations |-> 1]
    /\ UNCHANGED <<sequencer, samples, nextId, instrument, content, data, managerPads, drumKit, args>>

\* the loop is left and the events are returned
ReturnParseTrackEvents ==
    /\ ret.op = "parseTrackEvents"
    /\ ret.pos >= Len(data)
    /\ ret' = [op |-> "parsedTrackEvents"]
    /\ UNCHANGED <<sequencer, samples, nextId, instrument, content, data, managerPads, drumKit, args>>

InitTrack ==
    /\ samples = <<>>
    /\ nextId = 0
    /\ instrument = DefaultKeygroups
    /\ ret = [op |-> "init"]
    /\ content = <<>>
    /\ data \in TrackData
    /\ ServicesConstructed

NextTrack ==
    \/ BeginParseTrackEvents
    \/ IterateParseTrackEvents
    \/ ReturnParseTrackEvents

SpecTrack == InitTrack /\ [][NextTrack]_vars

Iterated == ret.op = "parseTrackEvents" /\ ret.iterations > 0

\* C21: every iteration of the loop of parseTrackEvents moves the read
\* position strictly forward, so that the loop ends on every track
C21_PositionAdvances == Iterated => ret.pos > ret.start

\* what holds: an iteration that reads no meta event moves forward
ChannelEventsAdvance ==
    Iterated /\ ret.runningStatus # 255 => ret.pos > ret.start

\* the byte that follows the delta time of the iteration made last
byteAfterDelta == byteAt(data, readVariableLength(data, ret.start, 0).pos)

\* the first data byte of an event
firstDataByte(event) ==
    IF event.type = "meta"
    THEN (IF event.subtype = "other" THEN event.metaType ELSE Undefined)
    ELSE IF event.type \in {"noteOn", "noteOff", "noteAftertouch"} THEN event.noteNumber
    ELSE IF event.type = "controller" THEN event.controllerType
    ELSE Undefined

\* C24: a byte with its top bit clear after the delta time is read as the
\* first data byte of an event under the previous status byte, and no status
\* byte is consumed; a byte with its top bit set is consumed as the new status
\* and remembered
C24_RunningStatus ==
    Iterated /\ byteAfterDelta # Undefined =>
        IF byteAfterDelta < 128
        THEN /\ ~ret.consumedStatus
             /\ ret.runningStatus = ret.previousStatus
             /\ (ret.event # <<>> /\ firstDataByte(ret.event[1]) # Undefined)
                    => firstDataByte(ret.event[1]) = byteAfterDelta
        ELSE /\ ret.consumedStatus
             /\ ret.runningStatus = byteAfterDelta

\* a second event under the running status of a note on
C24_Witness ==
    /\ Iterated
    /\ ret.previousStatus = 144
    /\ byteAfterDelta = 60
    /\ ret.event # <<>>
    /\ ret.event[1].type = "noteOn"
    /\ ret.event[1].noteNumber = 60

(***************************************************************************)
(* extractNotes: the notes still open at the end of a track and the count  *)
(* of the Note Events                                                      *)
(***************************************************************************)

\* the note ons that no later note off of the same note and channel follows
UnmatchedNoteOns(events) ==
    { i \in 1..Len(events) :
        /\ IsNoteOn(events, i)
        /\ \A k \in (i + 1)..Len(events) : ~(IsNoteOff(events, k) /\ SameNote(events, i, k)) }

\* the Note Event of a note on that is still open at the end of the track
openNote(events, i) ==
    [note |-> events[i].noteNumber, velocity |-> events[i].velocity,
     time |-> tickOf(events, i), duration |-> 0, channel |-> events[i].channel]

IsAmong(note, notes) == \E m \in 1..Len(notes) : notes[m] = note

\* C22: every note on with no later matching note off on the same note and
\* channel appears in the Note Events of its track with its own start tick,
\* its velocity and duration 0; none is dropped.
C22_OpenNotesKept ==
    (Decoded /\ ret.result.kind = "data") =>
        \A t \in 1..Len(ret.result.tracks) :
            \A i \in UnmatchedNoteOns(ret.result.tracks[t].events) :
                IsAmong(openNote(ret.result.tracks[t].events, i), ret.result.tracks[t].notes)

\* what the code keeps: the last note on of each note and channel, when no
\* note off follows it, is a Note Event of duration 0
LastOpenNotesKept ==
    (Decoded /\ ret.result.kind = "data") =>
        \A t \in 1..Len(ret.result.tracks) :
            \A i \in OpenNoteOns(ret.result.tracks[t].events) :
                IsAmong(openNote(ret.result.tracks[t].events, i), ret.result.tracks[t].notes)

NoteOns(events) == { i \in 1..Len(events) : IsNoteOn(events, i) }

\* C23: the number of Note Events of a track equals the number of its note
\* on events with velocity > 0; a second note on for a note and channel that
\* is already open does not make the earlier onset disappear.
C23_OneNotePerNoteOn ==
    (Decoded /\ ret.result.kind = "data") =>
        \A t \in 1..Len(ret.result.tracks) :
            Len(ret.result.tracks[t].notes) = Cardinality(NoteOns(ret.result.tracks[t].events))

\* what the code gives: one note per note on that is not overwritten by a
\* later note on of the same note and channel before its note off
OneNotePerKeptNoteOn ==
    (Decoded /\ ret.result.kind = "data") =>
        \A t \in 1..Len(ret.result.tracks) :
            Len(ret.result.tracks[t].notes) =
                Cardinality(NotePairs(ret.result.tracks[t].events))
                    + Cardinality(OpenNoteOns(ret.result.tracks[t].events))

(***************************************************************************)
(* The chunks of a file, as the bytes of the file lay them out             *)
(***************************************************************************)

\* the ids of the complete chunk headers (4 bytes of id, 4 bytes of length)
\* from position pos on, each chunk starting where the one before it ends
RECURSIVE chunkIdsFrom(_, _)
chunkIdsFrom(bytes, pos) ==
    IF pos + 8 > Len(bytes) THEN <<>>
    ELSE LET length == int32OfBytes(bytes[pos + 5], bytes[pos + 6], bytes[pos + 7], bytes[pos + 8])
         IN <<SubSeq(bytes, pos + 1, pos + 4)>>
                \o (IF length < 0 THEN <<>> ELSE chunkIdsFrom(bytes, pos + 8 + length))

\* a chunk after the header chunk is not a track chunk
ChunkAfterHeaderIsNotTrack(bytes) ==
    /\ FirstChunkIsHeader(bytes)
    /\ \E i \in 2..Len(chunkIdsFrom(bytes, 0)) : chunkIdsFrom(bytes, 0)[i] # MTrk

\* C25: a chunk after the header that is not a track chunk is a FormatError,
\* whatever track count the header declares; it is never skipped.
C25_NonTrackChunkIsFormatError ==
    (Decoded /\ ChunkAfterHeaderIsNotTrack(data)) => IsFormatError(ret.result)

\* what the code rejects: a chunk that is not a track among the first
\* numTracks chunks after the header
NonTrackAmongDeclaredIsFormatError ==
    (Decoded /\ FirstChunkIsHeader(data)
        /\ \E i \in 2..Len(chunkIdsFrom(data, 0)) :
              /\ chunkIdsFrom(data, 0)[i] # MTrk
              /\ i - 1 <= getUint16(SubSeq(data, 9, 14), 2))
        => IsFormatError(ret.result)

(***************************************************************************)
(* The velocity ranges of the samples that share a root                    *)
(***************************************************************************)

\* layer i (from 0) of count layers spans i * floor(128 / count) up to
\* (i + 1) * floor(128 / count) - 1, and the last layer ends at 127
EvenRanges(layers) ==
    LET count == Len(layers)
        rangeSize == 128 \div count
    IN \A i \in 1..count :
          /\ layers[i].low = (i - 1) * rangeSize
          /\ layers[i].high = IF i = count THEN 127 ELSE i * rangeSize - 1

\* C26: for count >= 2 samples sharing a root, sorted by velocity hint, layer
\* i gets low = i * floor(128 / count) and high = (i + 1) * floor(128 / count) - 1,
\* the last layer's high being 127 (MultiLayerExporter.assignVelocityRanges).
C26_EvenVelocityRanges ==
    (ret.op = "exportInstrument" /\ ret.multi)
        => \A layers \in exporterLayersWritten(ret.doc) :
              Len(layers) >= 2 => EvenRanges(layers)

\* what the code gives: the bounds are floor(i * 128 / count), which are the
\* even ranges when count divides 128
EvenRangesWhenCountDivides ==
    (ret.op = "exportInstrument" /\ ret.multi)
        => \A layers \in exporterLayersWritten(ret.doc) :
              (Len(layers) >= 2 /\ 128 % Len(layers) = 0) => EvenRanges(layers)

TwoLayersExported ==
    /\ ret.op = "exportInstrument" /\ ret.multi
    /\ \E layers \in exporterLayersWritten(ret.doc) : Len(layers) = 2

(***************************************************************************)
(* The repair pass applied to the documents the writers produce            *)
(***************************************************************************)

\* XPMUtils.fixXPMContent(xpmContent) called with the document just written
FixWrittenXPM ==
    /\ ret.op \in WriterOps
    /\ ret' = [op |-> "fixWrittenXPM", of |-> ret.doc, fixed |-> fixXPMContent(ret.doc)]
    /\ UNCHANGED <<sequencer, samples, nextId, instrument, content, data, managerPads, drumKit, args>>

NextWritten ==
    \/ NextInstrument
    \/ FixWrittenXPM

SpecWritten == InitInstrument /\ [][NextWritten]_vars

\* C27: the repair pass applied to a document produced by the writers, which
\* is well-formed and carries the declaration header, returns it unchanged:
\* no closing element is appended and no element is rewritten.
C27_RepairKeepsWritten ==
    (ret.op = "fixWrittenXPM" /\ ret.of[1] = Decl /\ WellFormed(ret.of))
        => ret.fixed = ret.of

\* what the code keeps: the declaration is not added a second time and the
\* tokens of the written document stay in place, Sample tags aside
RepairKeepsDeclarationAndOrder ==
    (ret.op = "fixWrittenXPM" /\ ret.of[1] = Decl /\ WellFormed(ret.of))
        => /\ Len(ret.fixed) >= Len(ret.of)
           /\ \A i \in 1..Len(ret.of) :
                 (ret.of[i].k = "decl" \/ ~(ret.of[i].k \in {"open", "empty"} /\ ret.of[i].n = "Sample"))
                     => ret.fixed[i] = ret.of[i]
           /\ \A i \in (Len(ret.of) + 1)..Len(ret.fixed) : ret.fixed[i].k = "close"

\* C28: the repair pass is idempotent: for every input document, applying
\* fixXPMContent to its own output returns that output unchanged (no second
\* header, no further path attribute, no further closing elements).
C28_RepairIdempotent ==
    ret.op = "fixXPMContentAgain" => content = ret.of

\* what the code gives: the pass is idempotent on the documents whose text
\* does not end inside a tag
IdempotentOnWholeTags ==
    (ret.op = "fixXPMContentAgain" /\ \A i \in 1..Len(ret.of) : ret.of[i].k # "cut")
        => content = ret.of

(***************************************************************************)
(* The sequencer: its operations and the callback of its interval timer,   *)
(* each of which runs to completion before the next one starts             *)
(***************************************************************************)
MaxPatternClock == 1

StepsPerBarOptions == {0, 4}
BarsPerPatternOptions == {0, 2}
TempoInputs == {20, 400}

totalSteps(pattern) == pattern.stepsPerBar * pattern.barsPerPattern

\* Sequencer.stop()
stop(seq) ==
    IF ~seq.isPlaying THEN seq
    ELSE [seq EXCEPT !.intervalId = <<>>, !.isPlaying = FALSE, !.currentStep = 0]

\* Sequencer.play(): the callback given to setInterval keeps the pattern that
\* is current now
play(seq) ==
    IF seq.isPlaying \/ getCurrentPattern(seq) = <<>> THEN seq
    ELSE [seq EXCEPT !.isPlaying = TRUE, !.intervalId = getCurrentPattern(seq)]

\* Sequencer.setTempo(bpm)
setTempo(seq, bpm) ==
    LET clamped == [seq EXCEPT !.tempo = IF bpm > 300 THEN 300 ELSE IF bpm < 30 THEN 30 ELSE bpm]
    IN IF clamped.isPlaying THEN play(stop(clamped)) ELSE clamped

\* the callback of the interval timer: playCurrentStep(), then the step moves
\* on modulo the length of the pattern the callback closed over
timerCallback(seq) ==
    [seq EXCEPT !.currentStep = (@ + 1) % totalSteps(seq.intervalId[1])]

SequencerFrame ==
    UNCHANGED <<samples, nextId, instrument, content, data, managerPads, drumKit, args>>

\* Date.now() gives the time of the call before or a later one
CreateNewPattern ==
    \E stepsPerBar \in StepsPerBarOptions, barsPerPattern \in BarsPerPatternOptions,
       now \in {sequencer.clock, sequencer.clock + 1} :
        /\ now <= Now + MaxPatternClock
        /\ sequencer' = createNewPattern(sequencer,
                            [stepsPerBar |-> stepsPerBar, barsPerPattern |-> barsPerPattern], now)
        /\ ret' = [op |-> "createNewPattern", id |-> <<"pattern", now>>]
        /\ SequencerFrame

SetCurrentPattern ==
    \E id \in { <<"pattern", t>> : t \in Now..(Now + MaxPatternClock) } :
        /\ sequencer' = IF id \in DOMAIN sequencer.patterns
                        THEN [sequencer EXCEPT !.currentPatternId = id] ELSE sequencer
        /\ ret' = [op |-> "setCurrentPattern", result |-> id \in DOMAIN sequencer.patterns]
        /\ SequencerFrame

SetTempo ==
    \E bpm \in TempoInputs :
        /\ sequencer' = setTempo(sequencer, bpm)
        /\ ret' = [op |-> "setTempo"]
        /\ SequencerFrame

Play ==
    /\ sequencer' = play(sequencer)
    /\ ret' = [op |-> "play"]
    /\ SequencerFrame

Stop ==
    /\ sequencer' = stop(sequencer)
    /\ ret' = [op |-> "stop"]
    /\ SequencerFrame

TimerTick ==
    /\ sequencer.intervalId # <<>>
    /\ sequencer' = timerCallback(sequencer)
    /\ ret' = [op |-> "timer"]
    /\ SequencerFrame

InitSequencer ==
    /\ samples = <<>>
    /\ nextId = 0
    /\ instrument = DefaultKeygroups
    /\ ret = [op |-> "init"]
    /\ content = <<>>
    /\ data = <<>>
    /\ ServicesConstructed

NextSequencer ==
    \/ CreateNewPattern
    \/ SetCurrentPattern
    \/ SetTempo
    \/ Play
    \/ Stop
    \/ TimerTick

SpecSequencer == InitSequencer /\ [][NextSequencer]_vars

\* C29: after any interleaving of play, stop, setTempo, setCurrentPattern,
\* createNewPattern and timer ticks, 0 <= currentStep < stepsPerBar *
\* barsPerPattern of the current pattern.
C29_StepWithinCurrentPattern ==
    /\ 0 <= sequencer.currentStep
    /\ getCurrentPattern(sequencer) # <<>>
          => sequencer.currentStep < totalSteps(getCurrentPattern(sequencer)[1])

\* what the code keeps: the step is 0 while stopped and below the length of
\* the pattern that was current when play() was called while playing
StepWithinPlayedPattern ==
    /\ 0 <= sequencer.currentStep
    /\ ~sequencer.isPlaying => sequencer.currentStep = 0
    /\ sequencer.isPlaying =>
          /\ sequencer.intervalId # <<>>
          /\ sequencer.currentStep < totalSteps(sequencer.intervalId[1])

(***************************************************************************)
(* Note names resolved to MIDI note numbers by the three services          *)
(***************************************************************************)

\* the sample names: a letter, no accidental or "#" or "b", an octave digit
NoteNameInputs ==
    { <<letter>> \o accidental \o <<DigitChars[octave + 1]>> :
        letter \in {"A", "B", "C", "D", "E", "F", "G"},
        accidental \in {<<>>, <<"#">>, <<"b">>},
        octave \in 0..9 }

\* sample-mapper.ts, mapSamplesToKeys: noteToMidi(extractNoteFromFilename(name))
MapperNoteToMidi ==
    /\ ret.op = "init"
    /\ ret' = [op |-> "noteToMidi", name |-> args[1],
               midiNote |-> noteToMidi(extractNoteFromFilename(args[1]))]
    /\ UNCHANGED <<sequencer, samples, nextId, instrument, content, data, managerPads, drumKit, args>>

\* VelocityLayerManager.organizeVelocityLayers:
\* noteNameToMidi(extractNoteFromFilename(name))
LayerNoteNameToMidi ==
    /\ ret.op = "init"
    /\ ret' = [op |-> "noteNameToMidi", name |-> args[1],
               midiNote |-> noteToMidi(extractNoteFromFilename(args[1]))]
    /\ UNCHANGED <<sequencer, samples, nextId, instrument, content, data, managerPads, drumKit, args>>

\* XPMUtils.extractMidiNoteFromFilename(name)
UtilsExtractMidiNote ==
    /\ ret.op = "init"
    /\ ret' = [op |-> "extractMidiNoteFromFilename", name |-> args[1],
               midiNote |-> extractMidiNoteFromFilename(args[1])]
    /\ UNCHANGED <<sequencer, samples, nextId, instrument, content, data, managerPads, drumKit, args>>

InitNotes ==
    /\ samples = <<>>
    /\ nextId = 0
    /\ instrument = DefaultKeygroups
    /\ ret = [op |-> "init"]
    /\ content = <<>>
    /\ data = <<>>
    /\ managerPads = DefaultPadAssignments
    /\ drumKit = DefaultKitPads
    /\ sequencer = SequencerConstructed
    /\ args \in { <<name>> : name \in NoteNameInputs }

NextNotes ==
    \/ MapperNoteToMidi
    \/ LayerNoteNameToMidi
    \/ UtilsExtractMidiNote

SpecNotes == InitNotes /\ [][NextNotes]_vars

\* the semitone of a letter within its octave, a sharp one above it and a
\* flat one below it
letterSemitone(letter) ==
    CASE letter = "C" -> 0 [] letter = "D" -> 2 [] letter = "E" -> 4 [] letter = "F" -> 5
      [] letter = "G" -> 7 [] letter = "A" -> 9 [] letter = "B" -> 11

semitoneOf(name) ==
    letterSemitone(name[1])
        + (IF Len(name) = 3 THEN (IF name[2] = "#" THEN 1 ELSE -1) ELSE 0)

\* the seventeen names of the chromatic scale: no E#, B#, Cb, Fb
ChromaticName(name) ==
    Len(name) = 3 => <<name[1], name[2]>> \notin { <<"E", "#">>, <<"B", "#">>, <<"C", "b">>, <<"F", "b">> }

NoteResolved == ret.op \in {"noteToMidi", "noteNameToMidi", "extractMidiNoteFromFilename"}

\* C30: a note name found in a sample name resolves to (octave + 1) * 12 +
\* semitone for every letter A-G, accidental and octave 0-9; a flat gives the
\* number of its enharmonic sharp (Db3 and C#3 give 49, Bb3 and A#3 give 58).
C30_NoteNameResolves ==
    (NoteResolved /\ ChromaticName(ret.name)) =>
        ret.midiNote = (DigitValue(ret.name[Len(ret.name)]) + 1) * 12 + semitoneOf(ret.name)

\* what the code gives: the names without a flat resolve as specified
NaturalsAndSharpsResolve ==
    (NoteResolved /\ ChromaticName(ret.name) /\ ~(Len(ret.name) = 3 /\ ret.name[2] = "b")) =>
        ret.midiNote = (DigitValue(ret.name[Len(ret.name)]) + 1) * 12 + semitoneOf(ret.name)


====
